---------------------------- MODULE Spec2Model ----------------------------
(***************************************************************************)
(* Reward distribution engine of the $COPPER backend                       *)
(* (backend/app/services/distribution.py, twab.py, snapshot.py and         *)
(* backend/app/tasks/distribution_task.py).                                *)
(*                                                                         *)
(* Two specifications share the variables below:                           *)
(*   SpecCalc  - the share calculation of calculate_distribution applied   *)
(*               to bounded pool amounts and hash powers;                  *)
(*   Spec      - Celery workers running the scheduled and the forced       *)
(*               distribution task against one PostgreSQL database.        *)
(*                                                                         *)
(* Python's decimal.Decimal is modelled as a coefficient and an exponent   *)
(* with results rounded half-even to DecimalPrec significant digits, as    *)
(* the default decimal context does (with 28 digits).  Amounts are kept    *)
(* several digits shorter than DecimalPrec, as they are in production.     *)
(***************************************************************************)
EXTENDS Integers, Sequences, FiniteSets, TLC

\* ------------------------------------------------------------------ bounds
\* significant digits of the decimal context (28 in CPython, scaled down)
DecimalPrec == 4
\* largest pool amount handed to the share calculation in SpecCalc
MaxPoolAmount == 9

\* ------------------------------------------------------- decimal.Decimal
RECURSIVE Pow10(_)
Pow10(n) == IF n <= 0 THEN 1 ELSE 10 * Pow10(n - 1)

RECURSIVE NumDigits(_)
NumDigits(m) == IF m < 10 THEN 1 ELSE 1 + NumDigits(m \div 10)

\* m / 10^d rounded to an integer, ties to even (ROUND_HALF_EVEN)
RoundHalfEven(m, d) ==
    IF d <= 0 THEN m
    ELSE LET q == m \div Pow10(d)
             r == m % Pow10(d)
             half == 5 * Pow10(d - 1)
         IN  IF r > half \/ (r = half /\ q % 2 = 1) THEN q + 1 ELSE q

\* the value c * 10^e rounded to the context precision
DecRound(c, e) ==
    IF c < Pow10(DecimalPrec) THEN [c |-> c, e |-> e]
    ELSE LET d == NumDigits(c) - DecimalPrec
             q == RoundHalfEven(c, d)
         IN  IF q = Pow10(DecimalPrec)
             THEN [c |-> Pow10(DecimalPrec - 1), e |-> e + d + 1]
             ELSE [c |-> q, e |-> e + d]

\* Decimal(n) for an int n: exact, whatever the precision
Dec(n) == [c |-> n, e |-> 0]

DecMul(x, y) == DecRound(x.c * y.c, x.e + y.e)

DecAdd(x, y) ==
    LET e == IF x.e < y.e THEN x.e ELSE y.e
    IN  DecRound(x.c * Pow10(x.e - e) + y.c * Pow10(y.e - e), e)

\* x / y, correctly rounded to the context precision: the numerator is
\* shifted so that the integer quotient has exactly DecimalPrec digits and
\* the remainder decides the rounding
DecDiv(x, y) ==
    IF x.c = 0 THEN [c |-> 0, e |-> 0]
    ELSE LET k == NumDigits(x.c) - NumDigits(y.c)
             ge == IF k >= 0 THEN x.c >= y.c * Pow10(k)
                             ELSE x.c * Pow10(0 - k) >= y.c
             s == IF ge THEN DecimalPrec - 1 - k ELSE DecimalPrec - k
             num == x.c * Pow10(s)
             den == y.c * Pow10(0 - s)
             q == num \div den
             r == num - q * den
             up == 2 * r > den \/ (2 * r = den /\ q % 2 = 1)
             qq == IF up THEN q + 1 ELSE q
         IN  IF qq = Pow10(DecimalPrec)
             THEN [c |-> Pow10(DecimalPrec - 1), e |-> x.e - y.e - s + 1]
             ELSE [c |-> qq, e |-> x.e - y.e - s]

\* int(x): truncation toward zero
DecToInt(x) == IF x.e >= 0 THEN x.c * Pow10(x.e) ELSE x.c \div Pow10(0 - x.e)

DecIsZero(x) == x.c = 0

\* x < y for non-negative decimals
DecLess(x, y) ==
    LET e == IF x.e < y.e THEN x.e ELSE y.e
    IN  x.c * Pow10(x.e - e) < y.c * Pow10(y.e - e)


\* ----------------------------------------------------------- configuration
\* Settings.copper_token_decimals: the model runs a 0-decimal token, so raw
\* amounts stay small
COPPER_DECIMALS == 0
TOKEN_MULTIPLIER == Pow10(COPPER_DECIMALS)
distribution_threshold_usd == 250
distribution_max_hours == 24
min_balance_usd == 50
\* the window of the first distribution
DefaultWindowHours == 24

\* Decimal(str(TIER_CONFIG[tier]["multiplier"]))
TierMultiplier(tier) ==
    CASE tier = 1 -> [c |-> 10, e |-> -1]
      [] tier = 2 -> [c |-> 125, e |-> -2]
      [] tier = 3 -> [c |-> 15, e |-> -1]
      [] tier = 4 -> [c |-> 25, e |-> -1]
      [] tier = 5 -> [c |-> 35, e |-> -1]
      [] tier = 6 -> [c |-> 50, e |-> -1]

\* ------------------------------------------------------------------- sets
\* wallet addresses, in the order ORDER BY Balance.wallet returns them
WalletOrder == <<"w1", "w2", "w3">>
Wallets == {WalletOrder[i] : i \in 1..Len(WalletOrder)}
Workers == {"c1", "c2"}
None == [none |-> TRUE]

VARIABLES
    now,                      \* utc_now(), in hours
    pool_balance,             \* token balance of the pool wallet (Helius)
    price,                    \* COPPER price in USD (Jupiter), 0 = unavailable
    holdings,                 \* on-chain balance of every wallet
    snapshots,                \* snapshots.timestamp of every Snapshot row
    balances,                 \* Balance rows joined with their Snapshot
    hold_streaks,             \* the HoldStreak row of every wallet, or None
    distributions,            \* committed Distribution rows
    distribution_recipients,  \* committed DistributionRecipient rows
    system_stats,             \* the SystemStats row (id = 1) or None
    distribution_lock,        \* the DistributionLock row (id = 1)
    excluded_wallets,         \* ExcludedWallet.wallet of every row
    run_seq,                  \* task invocations started so far
    pc,                       \* per worker: position in its task
    loc,                      \* per worker: locals and pending transaction
    result,                   \* per worker: dict returned by its last task
    calc_pool,                \* SpecCalc: pool_amount argument
    calc_hps,                 \* SpecCalc: list returned by calculate_all_hash_powers
    calc_plan,                \* SpecCalc: the computed recipients, or None
    twab_start,               \* SpecTwab: start argument of calculate_twab
    twab_end,                 \* SpecTwab: end argument of calculate_twab
    twab_result,              \* SpecTwab: [twab |-> the value returned], or Pending
    hp_call,                  \* SpecHashPowers: min_balance and limit arguments
    hp_result,                \* SpecHashPowers: [hash_powers |-> list], or Pending
    excluded_call,            \* the last call on the exclusion list and its answer
    streak_calls,             \* per handler: the StreakService call in progress
    streak_log,               \* lines logged by StreakService, oldest first
    creator_rewards,          \* the CreatorReward row of every id, or None
    buybacks,                 \* swaps executed, with the rewards each spent
    reward_runs,              \* per worker: its process_pending_rewards run
    clock,                    \* time.time(), in seconds
    price_cache,              \* _price_cache[cache_key], or None
    price_calls               \* per caller: its get_copper_price_usd call

envVars == <<now, pool_balance, price, holdings>>
dbVars == <<snapshots, balances, hold_streaks, distributions,
            distribution_recipients, system_stats, distribution_lock,
            excluded_wallets>>
taskVars == <<run_seq, pc, loc, result>>
twabVars == <<twab_start, twab_end, twab_result>>
hpVars == <<hp_call, hp_result>>
calcVars == <<calc_pool, calc_hps, calc_plan, twabVars, hpVars, excluded_call>>
streakVars == <<streak_calls, streak_log>>
buybackVars == <<creator_rewards, buybacks, reward_runs>>
priceCacheVars == <<clock, price_cache, price_calls>>
serviceVars == <<buybackVars, priceCacheVars>>
vars == <<now, pool_balance, price, holdings, snapshots, balances,
          hold_streaks, distributions, distribution_recipients, system_stats,
          distribution_lock, excluded_wallets, run_seq, pc, loc, result,
          calc_pool, calc_hps, calc_plan, twab_start, twab_end, twab_result,
          hp_call, hp_result, excluded_call,
          streak_calls, streak_log,
          creator_rewards, buybacks, reward_runs,
          clock, price_cache, price_calls>>

\* ------------------------------------------------------------------- TWAB
\* the rows of one wallet with start <= timestamp <= end, ascending
RECURSIVE SamplesFrom(_, _, _, _)
SamplesFrom(rows, wallet, t, end) ==
    IF t > end THEN <<>>
    ELSE LET here == {r \in rows : r.wallet = wallet /\ r.timestamp = t}
             rest == SamplesFrom(rows, wallet, t + 1, end)
         IN  IF here = {} THEN rest
             ELSE <<[timestamp |-> t,
                     balance |-> (CHOOSE r \in here : TRUE).balance]>> \o rest

Max(a, b) == IF a > b THEN a ELSE b
Min(a, b) == IF a < b THEN a ELSE b

\* variant: a segment starts at its own sample
SegStartAtSample(bs, i, start) ==
    IF i = 1 THEN 2 * start
    ELSE 2 * bs[i].timestamp

\* TWABService._compute_twab; durations are counted in half hours, the unit
\* in which the midpoints between hourly timestamps are whole
SegStart(bs, i, start) ==
    IF i = 1 THEN 2 * start
    ELSE bs[i - 1].timestamp + bs[i].timestamp

\* variant: a segment lasts until the next sample
SegEndAtNextSample(bs, i, end) ==
    IF i = Len(bs) THEN 2 * end
    ELSE 2 * bs[i + 1].timestamp

SegEnd(bs, i, end) ==
    IF i = Len(bs) THEN 2 * end
    ELSE bs[i].timestamp + bs[i + 1].timestamp

\* variant: every segment lasts until the end of the window
SegDurationToEnd(bs, i, start, end) ==
    2 * end - Max(SegStart(bs, i, start), 2 * start)

SegDuration(bs, i, start, end) ==
    Min(SegEnd(bs, i, end), 2 * end) - Max(SegStart(bs, i, start), 2 * start)

RECURSIVE WeightedSum(_, _, _, _)
WeightedSum(bs, i, start, end) ==
    IF i = 0 THEN Dec(0)
    ELSE LET before == WeightedSum(bs, i - 1, start, end)
             duration == SegDuration(bs, i, start, end)
         IN  IF duration > 0
             THEN DecAdd(before, DecMul(Dec(bs[i].balance), Dec(duration)))
             ELSE before

\* variant: a single sample counts from its own timestamp on
compute_twab_single_weighted(bs, start, end) ==
    IF Len(bs) = 0 THEN 0
    ELSE IF end - start <= 0 THEN 0
    ELSE IF Len(bs) = 1
         THEN (bs[1].balance * (end - bs[1].timestamp)) \div (end - start)
    ELSE DecToInt(DecDiv(WeightedSum(bs, Len(bs), start, end),
                         Dec(2 * (end - start))))

\* variant: the single sample is looked at before the window length
compute_twab_single_first(bs, start, end) ==
    IF Len(bs) = 0 THEN 0
    ELSE IF Len(bs) = 1 THEN bs[1].balance
    ELSE IF end - start <= 0 THEN 0
    ELSE DecToInt(DecDiv(WeightedSum(bs, Len(bs), start, end),
                         Dec(2 * (end - start))))

compute_twab(bs, start, end) ==
    IF Len(bs) = 0 THEN 0
    ELSE IF end - start <= 0 THEN 0
    ELSE IF Len(bs) = 1 THEN bs[1].balance
    ELSE DecToInt(DecDiv(WeightedSum(bs, Len(bs), start, end),
                         Dec(2 * (end - start))))

\* ------------------------------------------------------------- hash power
HashPowerInfo(wallet, twab, tier) ==
    [wallet |-> wallet, twab |-> twab, tier |-> tier,
     hash_power |-> DecMul(Dec(twab), TierMultiplier(tier))]

\* list.sort(key=hash_power, reverse=True): stable, descending
RECURSIVE InsertDesc(_, _)
InsertDesc(sorted, x) ==
    IF sorted = <<>> THEN <<x>>
    ELSE IF DecLess(Head(sorted).hash_power, x.hash_power)
         THEN <<x>> \o sorted
         ELSE <<Head(sorted)>> \o InsertDesc(Tail(sorted), x)

RECURSIVE SortDesc(_)
SortDesc(xs) ==
    IF xs = <<>> THEN <<>>
    ELSE InsertDesc(SortDesc(SubSeq(xs, 1, Len(xs) - 1)), xs[Len(xs)])

\* TWABService.calculate_all_hash_powers over the stored rows, which the
\* query returns ordered by wallet and timestamp
RECURSIVE HashPowersFrom(_, _, _, _, _, _)
HashPowersFrom(rows, tiers, i, start, end, min_balance) ==
    IF i > Len(WalletOrder) THEN <<>>
    ELSE LET w == WalletOrder[i]
             bs == SamplesFrom(rows, w, start, end)
             twab == compute_twab(bs, start, end)
             tier == IF tiers[w] = None THEN 1 ELSE tiers[w].current_tier
             rest == HashPowersFrom(rows, tiers, i + 1, start, end, min_balance)
         IN  IF bs = <<>> \/ twab < min_balance THEN rest
             ELSE <<HashPowerInfo(w, twab, tier)>> \o rest

\* the list xs back to front
RECURSIVE Reversed(_)
Reversed(xs) ==
    IF xs = <<>> THEN <<>> ELSE Reversed(Tail(xs)) \o <<Head(xs)>>

\* variant: the rows come in another order than ORDER BY Balance.wallet
calculate_all_hash_powers_unordered(rows, tiers, start, end, min_balance) ==
    SortDesc(Reversed(HashPowersFrom(rows, tiers, 1, start, end, min_balance)))

calculate_all_hash_powers(rows, tiers, start, end, min_balance) ==
    SortDesc(HashPowersFrom(rows, tiers, 1, start, end, min_balance))

\* calculate_all_hash_powers, lines 252-254: limit None or 0 keeps the list
Truncated(hash_powers, limit) ==
    IF limit = 0 \/ limit >= Len(hash_powers) THEN hash_powers
    ELSE SubSeq(hash_powers, 1, limit)

\* ------------------------------------------ calculate_distribution: shares
\* variant: the first wallet's hash power is counted twice in the total
RECURSIVE SumHashPowerPlain(_)
SumHashPowerPlain(hps) ==
    IF hps = <<>> THEN Dec(0)
    ELSE DecAdd(SumHashPowerPlain(SubSeq(hps, 1, Len(hps) - 1)),
                hps[Len(hps)].hash_power)
SumHashPowerFirstTwice(hps) ==
    IF hps = <<>> THEN Dec(0)
    ELSE DecAdd(hps[1].hash_power, SumHashPowerPlain(hps))

RECURSIVE SumHashPower(_)
SumHashPower(hps) ==
    IF hps = <<>> THEN Dec(0)
    ELSE DecAdd(SumHashPower(SubSeq(hps, 1, Len(hps) - 1)),
                hps[Len(hps)].hash_power)

\* variant: round(...) to the nearest unit instead of int(...)
ShareAmountRounded(pool_amount, hash_power, total_hp) ==
    DecToInt(DecAdd(DecMul(Dec(pool_amount), DecDiv(hash_power, total_hp)),
                    [c |-> 5, e |-> -1]))

\* int(Decimal(pool_amount) * (hp.hash_power / total_hp))
ShareAmount(pool_amount, hash_power, total_hp) ==
    DecToInt(DecMul(Dec(pool_amount), DecDiv(hash_power, total_hp)))

RecipientShare(hp, amount) ==
    [wallet |-> hp.wallet, twab |-> hp.twab, hash_power |-> hp.hash_power,
     amount |-> amount]

RECURSIVE Shares(_, _, _)
Shares(pool_amount, hps, total_hp) ==
    IF hps = <<>> THEN <<>>
    ELSE LET amount == ShareAmount(pool_amount, Head(hps).hash_power, total_hp)
             rest == Shares(pool_amount, Tail(hps), total_hp)
         IN  IF amount > 0
             THEN <<RecipientShare(Head(hps), amount)>> \o rest
             ELSE rest

\* variant: an empty eligible set yields a plan without recipients
CalculateSharesEmptyPlan(pool_amount, hps) ==
    IF pool_amount <= 0 THEN None
    ELSE LET total_hp == SumHashPower(hps)
             recipients == IF DecIsZero(total_hp) THEN <<>>
                           ELSE Shares(pool_amount, hps, total_hp)
         IN  [pool_amount |-> pool_amount,
              total_hashpower |-> total_hp,
              recipient_count |-> Len(recipients),
              recipients |-> recipients]

\* the tail of calculate_distribution: None when nothing can be distributed,
\* otherwise the plan's totals and recipients
CalculateShares(pool_amount, hps) ==
    IF pool_amount <= 0 THEN None
    ELSE IF hps = <<>> THEN None
    ELSE LET total_hp == SumHashPower(hps)
         IN  IF DecIsZero(total_hp) THEN None
             ELSE LET recipients == Shares(pool_amount, hps, total_hp)
                  IN  [pool_amount |-> pool_amount,
                       total_hashpower |-> total_hp,
                       recipient_count |-> Len(recipients),
                       recipients |-> recipients]


\* ---------------------------------------------------------- model bounds
\* largest twab of a wallet in SpecCalc
MaxTwab == 3
\* task invocations per behaviour
MaxRuns == 2
\* the clock advances in steps of TickHours up to MaxNow
TickHours == 12
MaxNow == 48
\* the pool receives DepositAmount tokens per deposit, up to MaxDeposits times
DepositAmount == 3
MaxDeposits == 2
\* Snapshot rows per behaviour
MaxSnapshots == 3

\* the price the feed reports during a behaviour; 0 when it is unavailable
Prices == {0, 50}
NoTime == -1

\* ----------------------------------------------------------- initial state
InitEnv ==
    /\ now = 24
    /\ pool_balance = 0
    /\ price \in Prices
    /\ holdings = [w \in Wallets |-> CASE w = "w1" -> 1 [] w = "w2" -> 2
                                       [] OTHER -> 0]

\* a HoldStreak row
HoldStreak(current_tier, streak_start, last_sell_at) ==
    [current_tier |-> current_tier, streak_start |-> streak_start,
     last_sell_at |-> last_sell_at]

\* two snapshots have been taken, no wallet is excluded
InitSnapshots ==
    /\ snapshots = {0, 12}
    /\ balances = {[wallet |-> w, timestamp |-> t, balance |-> holdings[w]] :
                     w \in {x \in Wallets : holdings[x] > 0}, t \in {0, 12}}
    /\ excluded_wallets = {}
    /\ distribution_lock = [locked_at |-> NoTime, locked_by |-> ""]

\* nothing has been distributed yet
InitNoDistribution ==
    /\ distributions = {}
    /\ distribution_recipients = {}
    /\ system_stats = [total_distributed |-> 0, last_distribution_at |-> NoTime]

\* w1 started its streak with the first snapshot
InitDb ==
    /\ InitSnapshots
    /\ InitNoDistribution
    /\ hold_streaks = [w \in Wallets |->
                         IF w = "w1" THEN HoldStreak(1, 0, NoTime) ELSE None]

EmptyLoc ==
    [run |-> 0, kind |-> "", trigger |-> "", pool_amount |-> 0,
     pool_value_usd |-> Dec(0), trigger_type |-> "", plan |-> None,
     new_distribution |-> None, new_recipients |-> {}, stats |-> None]
NoResult == [status |-> "", reason |-> "", trigger_type |-> ""]

InitTasks ==
    /\ run_seq = 0
    /\ pc = [p \in Workers |-> "idle"]
    /\ loc = [p \in Workers |-> EmptyLoc]
    /\ result = [p \in Workers |-> NoResult]

InitTwabIdle ==
    /\ twab_start = 0
    /\ twab_end = 0
    /\ twab_result = None

InitHpIdle ==
    /\ hp_call = None
    /\ hp_result = None
    /\ excluded_call = None

InitCalcIdle ==
    /\ calc_pool = 0
    /\ calc_hps = <<>>
    /\ calc_plan = None
    /\ InitTwabIdle
    /\ InitHpIdle

\* a handler that is not inside a StreakService call
NoCall ==
    [op |-> "", wallet |-> "", streak |-> None, now |-> NoTime, new_tier |-> 0]
StreakHandlers == {"h1", "h2"}

InitStreakIdle ==
    /\ streak_calls = [h \in StreakHandlers |-> NoCall]
    /\ streak_log = <<>>

\* the ids of the CreatorReward rows and the workers of the buyback task
RewardIds == {"r1", "r2"}
RewardWorkers == {"b1", "b2"}

\* a worker that is not inside process_creator_rewards
NoRewardRun ==
    [at |-> "idle", rewards |-> {}, buyback_success |-> FALSE,
     team_tx |-> FALSE]

\* no reward has been received and no process_creator_rewards task runs
InitBuybackIdle ==
    /\ creator_rewards = [r \in RewardIds |-> None]
    /\ buybacks = <<>>
    /\ reward_runs = [p \in RewardWorkers |-> NoRewardRun]

\* the coroutine that calls get_copper_price_usd
PriceCallers == {"a1"}

\* a caller that is not inside get_copper_price_usd and has not called yet
NoPriceCall ==
    [at |-> "idle", now |-> 0, cached |-> None, use_fallback |-> TRUE,
     fetch_started |-> 0, returned |-> None]

\* the process has just started: the cache is empty, nobody asks for a price
InitPriceCacheIdle ==
    /\ clock = 0
    /\ price_cache = None
    /\ price_calls = [a \in PriceCallers |-> NoPriceCall]

InitServicesIdle == InitBuybackIdle /\ InitPriceCacheIdle

Init ==
    /\ InitEnv
    /\ InitDb
    /\ InitTasks
    /\ InitCalcIdle
    /\ InitStreakIdle
    /\ InitServicesIdle

\* ------------------------------------------------- pool status and trigger
\* DistributionService.get_pool_value_usd
get_pool_value_usd ==
    DecMul(DecDiv(Dec(pool_balance), Dec(TOKEN_MULTIPLIER)), Dec(price))

\* executed_at of DistributionService.get_last_distribution, NoTime if none
LastExecutedAt ==
    IF distributions = {} THEN NoTime
    ELSE CHOOSE t \in {d.executed_at : d \in distributions} :
             \A d \in distributions : d.executed_at <= t

\* variant: the pool value must exceed the threshold
threshold_met_strict ==
    DecLess(Dec(distribution_threshold_usd), get_pool_value_usd)

\* variant: the time trigger needs a prior distribution
time_trigger_met_prior ==
    /\ LastExecutedAt # NoTime
    /\ now - LastExecutedAt >= distribution_max_hours

\* DistributionService.get_pool_status
threshold_met == ~DecLess(get_pool_value_usd, Dec(distribution_threshold_usd))
time_trigger_met ==
    \/ LastExecutedAt = NoTime
    \/ now - LastExecutedAt >= distribution_max_hours

\* DistributionService.should_distribute: the trigger, "" when none is met
should_distribute ==
    IF threshold_met THEN "threshold"
    ELSE IF time_trigger_met THEN "time"
    ELSE ""

\* variant: without a price the USD floor is taken as a token amount
min_balance_tokens_unpriced ==
    IF price > 0
    THEN DecToInt(DecMul(DecDiv(Dec(min_balance_usd), Dec(price)),
                         Dec(TOKEN_MULTIPLIER)))
    ELSE min_balance_usd * TOKEN_MULTIPLIER

\* calculate_distribution, lines 253-259
min_balance_tokens ==
    IF price > 0
    THEN DecToInt(DecMul(DecDiv(Dec(min_balance_usd), Dec(price)),
                         Dec(TOKEN_MULTIPLIER)))
    ELSE 0

\* calculate_distribution, lines 244-251
WindowStart == IF LastExecutedAt # NoTime THEN LastExecutedAt
               ELSE now - DefaultWindowHours


\* ------------------------------------------------------------------ tasks
Failed(reason) == [status |-> "failed", reason |-> reason, trigger_type |-> ""]

\* the "failed" dict a task returns when no plan could be made
NoPlanResult(kind) ==
    IF kind = "forced" THEN Failed("no_eligible_recipients")
    ELSE Failed("distribution_error")

\* the "failed" dict a task returns when execute_distribution returned None
NoDistributionResult(kind) ==
    IF kind = "forced" THEN Failed("execution_error")
    ELSE Failed("distribution_error")

\* a task ends: the session is closed, what it had not committed is gone
Finish(p, res) ==
    /\ pc' = [pc EXCEPT ![p] = "idle"]
    /\ loc' = [loc EXCEPT ![p] = EmptyLoc]
    /\ result' = [result EXCEPT ![p] = res]

\* _check_distribution_triggers up to the call of check_and_distribute
\* (distribution_task.py lines 29-51)
StartScheduled(p) ==
    /\ pc[p] = "idle"
    /\ run_seq < MaxRuns
    /\ run_seq' = run_seq + 1
    /\ IF should_distribute = ""
       THEN /\ result' = [result EXCEPT ![p] =
                   [status |-> "skipped", reason |-> "", trigger_type |-> ""]]
            /\ UNCHANGED <<pc, loc>>
       ELSE /\ pc' = [pc EXCEPT ![p] = "check_and_distribute"]
            /\ loc' = [loc EXCEPT ![p] =
                   [EmptyLoc EXCEPT !.run = run_seq + 1, !.kind = "scheduled"]]
            /\ result' = [result EXCEPT ![p] = NoResult]
    /\ UNCHANGED <<envVars, dbVars, calcVars, streakVars, serviceVars>>

\* check_and_distribute, lines 469-477: the trigger is evaluated again and
\* kept in the local variable trigger, which is logged
CheckAndDistribute(p) ==
    /\ pc[p] = "check_and_distribute"
    /\ IF should_distribute = ""
       THEN Finish(p, NoDistributionResult(loc[p].kind))
       ELSE /\ pc' = [pc EXCEPT ![p] = "calculate"]
            /\ loc' = [loc EXCEPT ![p].trigger = should_distribute]
            /\ UNCHANGED result
    /\ UNCHANGED <<envVars, dbVars, run_seq, calcVars, streakVars, serviceVars>>

\* _force_distribution, lines 88-95: no trigger check
StartForced(p) ==
    /\ pc[p] = "idle"
    /\ run_seq < MaxRuns
    /\ run_seq' = run_seq + 1
    /\ pc' = [pc EXCEPT ![p] = "calculate"]
    /\ loc' = [loc EXCEPT ![p] =
           [EmptyLoc EXCEPT !.run = run_seq + 1, !.kind = "forced"]]
    /\ result' = [result EXCEPT ![p] = NoResult]
    /\ UNCHANGED <<envVars, dbVars, calcVars, streakVars, serviceVars>>

\* calculate_distribution, lines 229-242: pool amount, value, trigger type
CalculateTrigger(p) ==
    /\ pc[p] = "calculate"
    /\ IF pool_balance <= 0
       THEN Finish(p, NoPlanResult(loc[p].kind))
       ELSE /\ pc' = [pc EXCEPT ![p] = "calculate_shares"]
            /\ loc' = [loc EXCEPT ![p].pool_amount = pool_balance,
                                  ![p].pool_value_usd = get_pool_value_usd,
                                  ![p].trigger_type =
                                      IF should_distribute = "" THEN "manual"
                                      ELSE should_distribute]
            /\ UNCHANGED result
    /\ UNCHANGED <<envVars, dbVars, run_seq, calcVars, streakVars, serviceVars>>

\* calculate_distribution, lines 244-298: window, hash powers, shares
calculate_distribution(p) ==
    LET hash_powers == calculate_all_hash_powers(balances, hold_streaks,
                           WindowStart, now, min_balance_tokens)
        shares == CalculateShares(loc[p].pool_amount, hash_powers)
    IN  IF shares = None THEN None
        ELSE [pool_amount |-> shares.pool_amount,
              pool_value_usd |-> loc[p].pool_value_usd,
              total_hashpower |-> shares.total_hashpower,
              recipient_count |-> shares.recipient_count,
              trigger_type |-> loc[p].trigger_type,
              recipients |-> shares.recipients]

CalculatePlan(p) ==
    /\ pc[p] = "calculate_shares"
    /\ LET plan == calculate_distribution(p)
       IN  IF plan = None
           THEN Finish(p, NoPlanResult(loc[p].kind))
           ELSE /\ pc' = [pc EXCEPT ![p] = "execute"]
                /\ loc' = [loc EXCEPT ![p].plan = plan]
                /\ UNCHANGED result
    /\ UNCHANGED <<envVars, dbVars, run_seq, calcVars, streakVars, serviceVars>>

\* the CHECK constraints of the distributions table (models.py lines 177-183)
DistributionConstraints(d) ==
    /\ d.pool_amount > 0
    /\ ~DecIsZero(d.total_hashpower)
    /\ d.recipient_count > 0
    /\ d.trigger_type \in {"threshold", "time"}

\* variant: the Distribution row is committed by the flush itself
ExecuteFlushAutocommit(p) ==
    /\ pc[p] = "execute"
    /\ LET plan == loc[p].plan
           d == [id |-> loc[p].run,
                 pool_amount |-> plan.pool_amount,
                 total_hashpower |-> plan.total_hashpower,
                 recipient_count |-> plan.recipient_count,
                 trigger_type |-> plan.trigger_type,
                 executed_at |-> now]
       IN  IF d.pool_amount > 0 /\ ~DecIsZero(d.total_hashpower)
              /\ d.recipient_count > 0
              /\ d.trigger_type \in {"threshold", "time"}
           THEN /\ pc' = [pc EXCEPT ![p] = "insert_recipients"]
                /\ loc' = [loc EXCEPT ![p].new_distribution = d]
                /\ distributions' = distributions \cup {d}
                /\ UNCHANGED result
           ELSE /\ Finish(p, NoDistributionResult(loc[p].kind))
                /\ UNCHANGED distributions
    /\ UNCHANGED <<envVars, snapshots, balances, hold_streaks,
                   distribution_recipients, system_stats, distribution_lock,
                   excluded_wallets, run_seq, calcVars, streakVars, serviceVars>>

\* execute_distribution, lines 313-324: the Distribution row is flushed; a
\* row the constraints reject raises, which the except clause turns into a
\* rollback and None
ExecuteFlush(p) ==
    /\ pc[p] = "execute"
    /\ LET plan == loc[p].plan
           d == [id |-> loc[p].run,
                 pool_amount |-> plan.pool_amount,
                 total_hashpower |-> plan.total_hashpower,
                 recipient_count |-> plan.recipient_count,
                 trigger_type |-> plan.trigger_type,
                 executed_at |-> now]
       IN  IF DistributionConstraints(d)
           THEN /\ pc' = [pc EXCEPT ![p] = "insert_recipients"]
                /\ loc' = [loc EXCEPT ![p].new_distribution = d]
                /\ UNCHANGED result
           ELSE Finish(p, NoDistributionResult(loc[p].kind))
    /\ UNCHANGED <<envVars, dbVars, run_seq, calcVars, streakVars, serviceVars>>

\* variant: the bulk insert leaves out the first recipient of the plan
ExecuteInsertRecipientsFromSecond(p) ==
    /\ pc[p] = "insert_recipients"
    /\ LET plan == loc[p].plan
           rows == {[distribution_id |-> loc[p].new_distribution.id,
                     wallet |-> plan.recipients[i].wallet,
                     twab |-> plan.recipients[i].twab,
                     hash_power |-> plan.recipients[i].hash_power,
                     amount_received |-> plan.recipients[i].amount] :
                       i \in 2..Len(plan.recipients)}
       IN  loc' = [loc EXCEPT ![p].new_recipients = rows]
    /\ pc' = [pc EXCEPT ![p] = "update_stats"]
    /\ UNCHANGED <<envVars, dbVars, run_seq, result, calcVars, streakVars, serviceVars>>

\* execute_distribution, lines 326-340: bulk insert of the recipients
ExecuteInsertRecipients(p) ==
    /\ pc[p] = "insert_recipients"
    /\ LET plan == loc[p].plan
           rows == {[distribution_id |-> loc[p].new_distribution.id,
                     wallet |-> plan.recipients[i].wallet,
                     twab |-> plan.recipients[i].twab,
                     hash_power |-> plan.recipients[i].hash_power,
                     amount_received |-> plan.recipients[i].amount] :
                       i \in 1..Len(plan.recipients)}
       IN  loc' = [loc EXCEPT ![p].new_recipients = rows]
    /\ pc' = [pc EXCEPT ![p] = "update_stats"]
    /\ UNCHANGED <<envVars, dbVars, run_seq, result, calcVars, streakVars, serviceVars>>

\* _update_system_stats, lines 442-454: the row is read and the new total is
\* computed from what was read; the UPDATE is sent when the session commits
UpdateSystemStats(p) ==
    /\ pc[p] = "update_stats"
    /\ loc' = [loc EXCEPT ![p].stats =
           IF system_stats = None THEN None
           ELSE [total_distributed |-> system_stats.total_distributed
                                         + loc[p].new_distribution.pool_amount,
                 last_distribution_at |-> loc[p].new_distribution.executed_at]]
    /\ pc' = [pc EXCEPT ![p] = "commit"]
    /\ UNCHANGED <<envVars, dbVars, run_seq, result, calcVars, streakVars, serviceVars>>

\* execute_distribution, line 345: everything pending becomes visible at once
ExecuteCommit(p) ==
    /\ pc[p] = "commit"
    /\ distributions' = distributions \cup {loc[p].new_distribution}
    /\ distribution_recipients' =
           distribution_recipients \cup loc[p].new_recipients
    /\ system_stats' = IF loc[p].stats = None THEN system_stats
                       ELSE loc[p].stats
    /\ pc' = [pc EXCEPT ![p] = "committed"]
    /\ UNCHANGED <<envVars, snapshots, balances, hold_streaks,
                   distribution_lock, excluded_wallets, run_seq, loc, result,
                   calcVars, streakVars, serviceVars>>

\* the task returns its "success" dict (distribution_task.py lines 56-63 and
\* 106-113)
ReturnSuccess(p) ==
    /\ pc[p] = "committed"
    /\ Finish(p, [status |-> "success", reason |-> "",
                  trigger_type |-> IF loc[p].kind = "forced" THEN "manual"
                                   ELSE loc[p].new_distribution.trigger_type])
    /\ UNCHANGED <<envVars, dbVars, run_seq, calcVars, streakVars, serviceVars>>

ExecuteStates == {"execute", "insert_recipients", "update_stats", "commit"}
ReadStates == {"check_and_distribute", "calculate", "calculate_shares"}

\* a database statement of execute_distribution raises: lines 359-362 roll
\* back and return None
ExecuteFails(p) ==
    /\ pc[p] \in ExecuteStates
    /\ Finish(p, NoDistributionResult(loc[p].kind))
    /\ UNCHANGED <<envVars, dbVars, run_seq, calcVars, streakVars, serviceVars>>

\* a query made while checking or planning raises: the task's except clause
\* returns the "error" dict (distribution_task.py lines 70-75 and 120-125)
QueryFails(p) ==
    /\ pc[p] \in ReadStates
    /\ Finish(p, [status |-> "error", reason |-> "storage",
                  trigger_type |-> ""])
    /\ UNCHANGED <<envVars, dbVars, run_seq, calcVars, streakVars, serviceVars>>

\* the worker process dies: nothing is returned, the database rolls the open
\* transaction back
Crash(p) ==
    /\ pc[p] # "idle"
    /\ Finish(p, [status |-> "lost", reason |-> "", trigger_type |-> ""])
    /\ UNCHANGED <<envVars, dbVars, run_seq, calcVars, streakVars, serviceVars>>

\* ------------------------------------------------------------ environment
Tick ==
    /\ now + TickHours <= MaxNow
    /\ now' = now + TickHours
    /\ UNCHANGED <<pool_balance, price, holdings, dbVars, taskVars, calcVars, streakVars, serviceVars>>

Deposit ==
    /\ pool_balance + DepositAmount <= DepositAmount * MaxDeposits
    /\ pool_balance' = pool_balance + DepositAmount
    /\ UNCHANGED <<now, price, holdings, dbVars, taskVars, calcVars, streakVars, serviceVars>>

\* SnapshotService.take_snapshot (snapshot.py lines 56-126), run at most once
\* per clock value by the hourly schedule
TakeSnapshot ==
    /\ now \notin snapshots
    /\ Cardinality(snapshots) < MaxSnapshots
    /\ snapshots' = snapshots \cup {now}
    /\ balances' = balances \cup
           {[wallet |-> w, timestamp |-> now, balance |-> holdings[w]] :
              w \in {x \in Wallets : holdings[x] > 0} \ excluded_wallets}
    /\ system_stats' =
           IF system_stats = None
           THEN [total_distributed |-> 0, last_distribution_at |-> NoTime]
           ELSE system_stats
    /\ UNCHANGED <<envVars, hold_streaks, distributions,
                   distribution_recipients, distribution_lock,
                   excluded_wallets, taskVars, calcVars, streakVars, serviceVars>>

Next ==
    \/ \E p \in Workers :
          \/ StartScheduled(p)
          \/ CheckAndDistribute(p)
          \/ StartForced(p)
          \/ CalculateTrigger(p)
          \/ CalculatePlan(p)
          \/ ExecuteFlush(p)
          \/ ExecuteInsertRecipients(p)
          \/ UpdateSystemStats(p)
          \/ ExecuteCommit(p)
          \/ ReturnSuccess(p)
          \/ ExecuteFails(p)
          \/ QueryFails(p)
          \/ Crash(p)
    \/ Tick
    \/ Deposit
    \/ TakeSnapshot

Spec == Init /\ [][Next]_vars


\* ------------- SpecScheduled: the scheduled task alone, one run at a time
BeatWorkers == {"c1"}

NextScheduled ==
    \/ \E p \in BeatWorkers :
          \/ StartScheduled(p)
          \/ CheckAndDistribute(p)
          \/ CalculateTrigger(p)
          \/ CalculatePlan(p)
          \/ ExecuteFlush(p)
          \/ ExecuteInsertRecipients(p)
          \/ UpdateSystemStats(p)
          \/ ExecuteCommit(p)
          \/ ReturnSuccess(p)
    \/ Tick
    \/ Deposit
    \/ TakeSnapshot

SpecScheduled == Init /\ [][NextScheduled]_vars


\* ---------------------------------------------- SpecCalc: the share maths
Pending == [pending |-> TRUE]
\* tiers of the wallets handed to the share calculation
CalcTiers == {1, 2, 4}

\* what calculate_all_hash_powers can return for three wallets
RECURSIVE InfosFrom(_, _, _)
InfosFrom(tw, tr, i) ==
    IF i > Len(WalletOrder) THEN <<>>
    ELSE LET w == WalletOrder[i]
             rest == InfosFrom(tw, tr, i + 1)
         IN  IF tw[w] < 0 THEN rest
             ELSE <<HashPowerInfo(w, tw[w], tr[w])>> \o rest

\* a twab of -1 stands for a wallet without samples in the window
HashPowerInputs ==
    {SortDesc(InfosFrom(tw, tr, 1)) :
        tw \in [Wallets -> -1..MaxTwab], tr \in [Wallets -> CalcTiers]}

InitCalc ==
    /\ InitEnv /\ price = 50
    /\ InitDb
    /\ InitTasks
    /\ InitStreakIdle
    /\ InitServicesIdle
    /\ calc_pool \in 0..MaxPoolAmount
    /\ calc_hps \in HashPowerInputs
    /\ calc_plan = Pending
    /\ InitTwabIdle
    /\ InitHpIdle

\* calculate_distribution(pool_amount) from line 266 on
CalcDistribution ==
    /\ calc_plan = Pending
    /\ calc_plan' = CalculateShares(calc_pool, calc_hps)
    /\ UNCHANGED <<envVars, dbVars, taskVars, calc_pool, calc_hps, twabVars,
                   hpVars, excluded_call, streakVars, serviceVars>>

NextCalc == CalcDistribution

SpecCalc == InitCalc /\ [][NextCalc]_vars

\* ------------------------------------ SpecTwab: calculate_twab on its own
\* samples per series
MaxTwabSamples == 3
\* largest balance of a sample
MaxTwabBalance == 3
\* hours at which snapshots were taken and at which windows start and end
TwabTimes == {0, 4, 10, 20}

\* TWABService.calculate_twab: the samples of the wallet with
\* start <= timestamp <= end, oldest first, handed to _compute_twab
calculate_twab(rows, wallet, start, end) ==
    compute_twab(SamplesFrom(rows, wallet, start, end), start, end)

\* the Balance rows of wallet w1 sampled at the hours ts with balances bal
TwabRows(ts, bal) ==
    {[wallet |-> "w1", timestamp |-> t, balance |-> bal[t]] : t \in ts}

\* stored series of w1: up to MaxTwabSamples samples of 0..MaxTwabBalance,
\* and the series 100 at hour 0, 200 at hour 10
InitTwab ==
    /\ now = 24 /\ pool_balance = 0 /\ price = 50
    /\ holdings = [w \in Wallets |-> 0]
    /\ \/ \E ts \in SUBSET TwabTimes :
             /\ Cardinality(ts) <= MaxTwabSamples
             /\ snapshots = ts
             /\ \E bal \in [ts -> 0..MaxTwabBalance] :
                    balances = TwabRows(ts, bal)
             /\ twab_start \in TwabTimes
             /\ twab_end \in {t \in TwabTimes : t >= twab_start}
       \/ /\ snapshots = {0, 10}
          /\ balances = TwabRows({0, 10}, [t \in {0, 10} |->
                                              IF t = 0 THEN 100 ELSE 200])
          /\ twab_start = 0
          /\ twab_end = 20
    /\ excluded_wallets = {}
    /\ distribution_lock = [locked_at |-> NoTime, locked_by |-> ""]
    /\ InitNoDistribution
    /\ hold_streaks = [w \in Wallets |-> None]
    /\ InitTasks
    /\ calc_pool = 0 /\ calc_hps = <<>> /\ calc_plan = None
    /\ twab_result = Pending
    /\ InitHpIdle
    /\ InitStreakIdle
    /\ InitServicesIdle

CalcTwab ==
    /\ twab_result = Pending
    /\ twab_result' =
          [twab |-> calculate_twab(balances, "w1", twab_start, twab_end)]
    /\ UNCHANGED <<envVars, dbVars, taskVars, calc_pool, calc_hps, calc_plan,
                   twab_start, twab_end, hpVars, excluded_call, streakVars, serviceVars>>

NextTwab == CalcTwab

SpecTwab == InitTwab /\ [][NextTwab]_vars

\* ------------------- SpecHashPowers: calculate_all_hash_powers on its own
\* largest limit argument; 0 stands for no limit
MaxHpLimit == 2
\* min_balance arguments
HpMinBalances == {0, 2}
\* start argument; the end argument is now
HpWindowStart == 0

InitHashPowers ==
    /\ now = 24 /\ pool_balance = 0 /\ price = 50
    /\ holdings \in [Wallets -> 0..MaxTwab]
    /\ InitSnapshots
    /\ InitNoDistribution
    /\ hold_streaks \in [Wallets ->
           {None} \cup {HoldStreak(t, 0, NoTime) : t \in CalcTiers}]
    /\ InitTasks
    /\ calc_pool = 0 /\ calc_hps = <<>> /\ calc_plan = None
    /\ InitTwabIdle
    /\ hp_call \in [min_balance : HpMinBalances, limit : 0..MaxHpLimit]
    /\ hp_result = Pending
    /\ excluded_call = None
    /\ InitStreakIdle
    /\ InitServicesIdle

CalcHashPowers ==
    /\ hp_result = Pending
    /\ hp_result' =
          [hash_powers |->
              Truncated(calculate_all_hash_powers(balances, hold_streaks,
                            HpWindowStart, now, hp_call.min_balance),
                        hp_call.limit)]
    /\ UNCHANGED <<envVars, dbVars, taskVars, calc_pool, calc_hps, calc_plan,
                   twabVars, hp_call, excluded_call, streakVars, serviceVars>>

NextHashPowers == CalcHashPowers

SpecHashPowers == InitHashPowers /\ [][NextHashPowers]_vars

\* -------------------------------------- SpecTrigger: the trigger decision
\* largest pool balance and longest time since the last distribution, in
\* hours, the trigger is evaluated on
MaxTriggerPool == 6
MaxHoursSince == 25

\* the Distribution a run committed at executed_at for a pool of 3 over the
\* initial samples, and its recipient
PriorDistribution(executed_at) ==
    [id |-> 0, pool_amount |-> 3, total_hashpower |-> [c |-> 30, e |-> -1],
     recipient_count |-> 1, trigger_type |-> "time",
     executed_at |-> executed_at]
PriorRecipient ==
    [distribution_id |-> 0, wallet |-> "w2", twab |-> 2,
     hash_power |-> [c |-> 20, e |-> -1], amount_received |-> 2]

InitTrigger ==
    /\ now = MaxNow
    /\ pool_balance \in 0..MaxTriggerPool
    /\ price \in Prices
    /\ holdings = [w \in Wallets |-> CASE w = "w1" -> 1 [] w = "w2" -> 2
                                       [] OTHER -> 0]
    /\ InitSnapshots
    /\ hold_streaks = [w \in Wallets |->
                         IF w = "w1" THEN HoldStreak(1, 0, NoTime) ELSE None]
    /\ \/ InitNoDistribution
       \/ \E h \in 0..MaxHoursSince :
             /\ distributions = {PriorDistribution(now - h)}
             /\ distribution_recipients = {PriorRecipient}
             /\ system_stats = [total_distributed |-> 3,
                                last_distribution_at |-> now - h]
    /\ InitTasks
    /\ InitCalcIdle
    /\ InitStreakIdle
    /\ InitServicesIdle

NextTrigger ==
    \E p \in Workers :
        \/ StartScheduled(p)
        \/ CheckAndDistribute(p)
        \/ CalculateTrigger(p)

SpecTrigger == InitTrigger /\ [][NextTrigger]_vars

\* --------------------------------------- SpecExcluded: the exclusion list
\* ExcludedWallet rows at any one time
MaxExcluded == 1

\* what is left alone by a call on the exclusion list
ExcludedFrame ==
    UNCHANGED <<envVars, snapshots, balances, hold_streaks, distributions,
                distribution_recipients, system_stats, distribution_lock,
                taskVars, calc_pool, calc_hps, calc_plan, twabVars, hpVars,
                streakVars, serviceVars>>

\* the bool a call on the exclusion list returned
ExcludedAnswer(op, wallet, ok) == [op |-> op, wallet |-> wallet, ok |-> ok]

\* variant: the wallet is merged into the list, listed or not
add_excluded_wallet_merge(w) ==
    /\ excluded_wallets' = excluded_wallets \cup {w}
    /\ excluded_call' = ExcludedAnswer("add", w, TRUE)
    /\ ExcludedFrame

\* SnapshotService.add_excluded_wallet: the INSERT of a wallet that is
\* already listed violates the primary key, which is caught and rolled back
add_excluded_wallet(w) ==
    /\ IF w \notin excluded_wallets
       THEN /\ excluded_wallets' = excluded_wallets \cup {w}
            /\ excluded_call' = ExcludedAnswer("add", w, TRUE)
       ELSE /\ UNCHANGED excluded_wallets
            /\ excluded_call' = ExcludedAnswer("add", w, FALSE)
    /\ ExcludedFrame

\* SnapshotService.remove_excluded_wallet
remove_excluded_wallet(w) ==
    /\ IF w \in excluded_wallets
       THEN /\ excluded_wallets' = excluded_wallets \ {w}
            /\ excluded_call' = ExcludedAnswer("remove", w, TRUE)
       ELSE /\ UNCHANGED excluded_wallets
            /\ excluded_call' = ExcludedAnswer("remove", w, FALSE)
    /\ ExcludedFrame

\* SnapshotService.get_excluded_wallets, as a set
get_excluded_wallets == excluded_wallets

\* the pool holds one deposit
InitExcluded ==
    /\ now = 24
    /\ pool_balance = DepositAmount
    /\ price \in Prices
    /\ holdings = [w \in Wallets |-> CASE w = "w1" -> 1 [] w = "w2" -> 2
                                       [] OTHER -> 0]
    /\ InitDb
    /\ InitTasks
    /\ InitCalcIdle
    /\ InitStreakIdle
    /\ InitServicesIdle

\* the exclusion list is edited while snapshots and forced runs go on
NextExcluded ==
    \/ \E w \in Wallets :
          \/ /\ Cardinality(excluded_wallets \cup {w}) <= MaxExcluded
             /\ add_excluded_wallet(w)
          \/ remove_excluded_wallet(w)
    \/ TakeSnapshot
    \/ Tick
    \/ \E p \in Workers :
          \/ StartForced(p)
          \/ CalculateTrigger(p)
          \/ CalculatePlan(p)
          \/ ExecuteFlush(p)
          \/ ExecuteInsertRecipients(p)
          \/ UpdateSystemStats(p)
          \/ ExecuteCommit(p)
          \/ ReturnSuccess(p)

SpecExcluded == InitExcluded /\ [][NextExcluded]_vars

\* ------------------- SpecExcludedSet: the exclusion list and the snapshots
NextExcludedSet ==
    \/ \E w \in Wallets :
          \/ add_excluded_wallet(w)
          \/ remove_excluded_wallet(w)
    \/ TakeSnapshot
    \/ Tick

SpecExcludedSet == InitExcluded /\ [][NextExcludedSet]_vars

\* ------------------------------------------- SpecStreak: holding streaks
\* StreakService calls per behaviour
MaxStreakCalls == 3

\* TIER_THRESHOLDS: the hours a streak must last to reach a tier
TIER_THRESHOLDS(tier) ==
    CASE tier = 1 -> 0
      [] tier = 2 -> 6
      [] tier = 3 -> 12
      [] tier = 4 -> 72
      [] tier = 5 -> 168
      [] tier = 6 -> 720
Tiers == 1..6

\* StreakService.calculate_tier_from_hours: the loop over TIER_THRESHOLDS
RECURSIVE TierLoop(_, _, _)
TierLoop(hours, t, tier) ==
    IF t \notin Tiers THEN tier
    ELSE TierLoop(hours, t + 1,
                  IF hours >= TIER_THRESHOLDS(t) THEN t ELSE tier)

\* variant: a threshold counts only once it is exceeded
calculate_tier_from_hours_strict(hours) ==
    LET reached == {t \in Tiers : hours > TIER_THRESHOLDS(t)}
    IN  IF reached = {} THEN 1
        ELSE CHOOSE t \in reached : \A u \in reached : u <= t

calculate_tier_from_hours(hours) == TierLoop(hours, 1, 1)

\* a line StreakService writes to its log: a started streak, a sell or an
\* upgrade, with the tier before and after
LogLine(op, wallet, old_tier, new_tier) ==
    [op |-> op, wallet |-> wallet, old_tier |-> old_tier,
     new_tier |-> new_tier]

\* handler h enters a StreakService call
CallStarts(h) ==
    /\ streak_calls[h] = NoCall
    /\ run_seq < MaxStreakCalls
    /\ run_seq' = run_seq + 1

\* what a StreakService call leaves alone
StreakFrame ==
    UNCHANGED <<envVars, snapshots, balances, distributions,
                distribution_recipients, system_stats, distribution_lock,
                excluded_wallets, pc, loc, result, calcVars, serviceVars>>

\* get_or_create_streak, lines 143-144: an existing streak is returned as
\* it is
get_or_create_streak(h, w) ==
    /\ CallStarts(h)
    /\ IF hold_streaks[w] # None
       THEN UNCHANGED streak_calls
       ELSE streak_calls' = [streak_calls EXCEPT ![h] =
                [NoCall EXCEPT !.op = "create", !.wallet = w]]
    /\ UNCHANGED <<hold_streaks, streak_log>>
    /\ StreakFrame

\* variant: the INSERT replaces the row of a wallet that has one
start_streak_upsert(h) ==
    /\ streak_calls[h].op = "create"
    /\ LET w == streak_calls[h].wallet
       IN  /\ hold_streaks' = [hold_streaks EXCEPT
                                  ![w] = HoldStreak(1, now, NoTime)]
           /\ streak_log' = Append(streak_log, LogLine("start", w, 0, 1))
    /\ streak_calls' = [streak_calls EXCEPT ![h] = NoCall]
    /\ UNCHANGED run_seq
    /\ StreakFrame

\* start_streak: the INSERT and its commit; wallet is the primary key, so
\* the INSERT of a second row for a wallet raises and stores nothing
start_streak(h) ==
    /\ streak_calls[h].op = "create"
    /\ LET w == streak_calls[h].wallet
       IN  IF hold_streaks[w] = None
           THEN /\ hold_streaks' = [hold_streaks EXCEPT
                                       ![w] = HoldStreak(1, now, NoTime)]
                /\ streak_log' = Append(streak_log, LogLine("start", w, 0, 1))
           ELSE UNCHANGED <<hold_streaks, streak_log>>
    /\ streak_calls' = [streak_calls EXCEPT ![h] = NoCall]
    /\ UNCHANGED run_seq
    /\ StreakFrame

\* variant: a sell of a wallet without a streak starts one
process_sell_read_creates(h, w) ==
    /\ CallStarts(h)
    /\ IF hold_streaks[w] = None
       THEN /\ UNCHANGED streak_calls
            /\ hold_streaks' = [hold_streaks EXCEPT
                                   ![w] = HoldStreak(1, now, NoTime)]
            /\ streak_log' = Append(streak_log, LogLine("unknown", w, 0, 0))
       ELSE /\ streak_calls' = [streak_calls EXCEPT ![h] =
                   [NoCall EXCEPT !.op = "sell", !.wallet = w,
                                  !.streak = hold_streaks[w], !.now = now]]
            /\ UNCHANGED <<hold_streaks, streak_log>>
    /\ StreakFrame

\* process_sell, lines 159-168: the row is read; for a wallet without a
\* streak the call logs the warning "unknown wallet" and returns None
process_sell_read(h, w) ==
    /\ CallStarts(h)
    /\ IF hold_streaks[w] = None
       THEN /\ UNCHANGED streak_calls
            /\ streak_log' = Append(streak_log, LogLine("unknown", w, 0, 0))
       ELSE /\ streak_calls' = [streak_calls EXCEPT ![h] =
                   [NoCall EXCEPT !.op = "sell", !.wallet = w,
                                  !.streak = hold_streaks[w], !.now = now]]
            /\ UNCHANGED streak_log
    /\ UNCHANGED hold_streaks
    /\ StreakFrame

\* process_sell, line 171
new_tier(old_tier) == Max(1, old_tier - 1)

\* variant: the streak restarts at the time of the sell
new_streak_start_now(sold_at, tier) == sold_at

\* process_sell, lines 174-175
new_streak_start(sold_at, tier) == sold_at - TIER_THRESHOLDS(tier)

\* the UPDATE the session sends at commit sets the attributes whose value
\* differs from the one that was loaded
Updated(stored, loaded, assigned) ==
    IF assigned = loaded THEN stored ELSE assigned

\* variant: a sell takes the wallet back to tier 1
process_sell_reset(h) ==
    /\ streak_calls[h].op = "sell"
    /\ LET c == streak_calls[h]
           w == c.wallet
       IN  /\ hold_streaks' = [hold_streaks EXCEPT ![w] =
                  HoldStreak(1, new_streak_start(c.now, 1), c.now)]
           /\ streak_log' = Append(streak_log,
                  LogLine("sell", w, c.streak.current_tier, 1))
    /\ streak_calls' = [streak_calls EXCEPT ![h] = NoCall]
    /\ UNCHANGED run_seq
    /\ StreakFrame

\* variant: the UPDATE is not restricted to the wallet that sold
process_sell_commit_unkeyed(h) ==
    /\ streak_calls[h].op = "sell"
    /\ LET c == streak_calls[h]
           w == c.wallet
           tier == new_tier(c.streak.current_tier)
           start == new_streak_start(c.now, tier)
       IN  /\ hold_streaks' = [v \in Wallets |->
                  IF hold_streaks[v] = None THEN None
                  ELSE HoldStreak(tier, start, c.now)]
           /\ streak_log' = Append(streak_log,
                  LogLine("sell", w, c.streak.current_tier, tier))
    /\ streak_calls' = [streak_calls EXCEPT ![h] = NoCall]
    /\ UNCHANGED run_seq
    /\ StreakFrame

\* process_sell, lines 170-189: tier, streak start and last sell are
\* assigned from what was read, and committed
process_sell_commit(h) ==
    /\ streak_calls[h].op = "sell"
    /\ LET c == streak_calls[h]
           w == c.wallet
           tier == new_tier(c.streak.current_tier)
           start == new_streak_start(c.now, tier)
       IN  /\ hold_streaks' = [hold_streaks EXCEPT ![w] =
                  HoldStreak(
                      Updated(@.current_tier, c.streak.current_tier, tier),
                      Updated(@.streak_start, c.streak.streak_start, start),
                      Updated(@.last_sell_at, c.streak.last_sell_at, c.now))]
           /\ streak_log' = Append(streak_log,
                  LogLine("sell", w, c.streak.current_tier, tier))
    /\ streak_calls' = [streak_calls EXCEPT ![h] = NoCall]
    /\ UNCHANGED run_seq
    /\ StreakFrame

\* update_tier_if_needed, lines 276-288, called for every streak by the
\* hourly update_all_tiers task, of which one instance runs at a time
update_tier_read(h, w) ==
    /\ CallStarts(h)
    /\ \A g \in StreakHandlers : streak_calls[g].op # "upgrade"
    /\ LET streak == hold_streaks[w]
       IN  IF streak = None
           THEN UNCHANGED streak_calls
           ELSE LET calculated_tier ==
                        calculate_tier_from_hours(now - streak.streak_start)
                IN  IF calculated_tier > streak.current_tier
                    THEN streak_calls' = [streak_calls EXCEPT ![h] =
                             [op |-> "upgrade", wallet |-> w,
                              streak |-> streak, now |-> now,
                              new_tier |-> calculated_tier]]
                    ELSE UNCHANGED streak_calls
    /\ UNCHANGED <<hold_streaks, streak_log>>
    /\ StreakFrame

\* variant: the upgrade stores the tier above the calculated one
update_tier_commit_above(h) ==
    /\ streak_calls[h].op = "upgrade"
    /\ LET c == streak_calls[h]
           w == c.wallet
       IN  /\ hold_streaks' = [hold_streaks EXCEPT
                                  ![w].current_tier = c.new_tier + 1]
           /\ streak_log' = Append(streak_log,
                  LogLine("upgrade", w, c.streak.current_tier, c.new_tier))
    /\ streak_calls' = [streak_calls EXCEPT ![h] = NoCall]
    /\ UNCHANGED run_seq
    /\ StreakFrame

\* update_tier_if_needed, lines 289-299: the new tier is committed
update_tier_commit(h) ==
    /\ streak_calls[h].op = "upgrade"
    /\ LET c == streak_calls[h]
           w == c.wallet
       IN  /\ hold_streaks' = [hold_streaks EXCEPT
                                  ![w].current_tier = c.new_tier]
           /\ streak_log' = Append(streak_log,
                  LogLine("upgrade", w, c.streak.current_tier, c.new_tier))
    /\ streak_calls' = [streak_calls EXCEPT ![h] = NoCall]
    /\ UNCHANGED run_seq
    /\ StreakFrame

\* the streaks a wallet can have when the behaviour starts: none, or one at
\* tier t that has lasted exactly the hours of a tier u >= t
InitStreaks ==
    {None} \cup
    {HoldStreak(t, now - TIER_THRESHOLDS(u), NoTime) :
        t \in Tiers, u \in Tiers}

InitStreak ==
    /\ InitEnv /\ price = 50
    /\ InitSnapshots
    /\ InitNoDistribution
    /\ hold_streaks \in
           {f \in [Wallets -> InitStreaks] :
               /\ \A w \in Wallets :
                     f[w] # None =>
                        TIER_THRESHOLDS(f[w].current_tier)
                            <= now - f[w].streak_start
               /\ f["w2"] \in {None, HoldStreak(1, now, NoTime)}
               /\ f["w3"] = None}
    /\ InitTasks
    /\ InitCalcIdle
    /\ InitStreakIdle
    /\ InitServicesIdle

NextStreak ==
    \/ \E h \in StreakHandlers :
          \/ \E w \in Wallets :
                \/ get_or_create_streak(h, w)
                \/ process_sell_read(h, w)
                \/ update_tier_read(h, w)
          \/ start_streak(h)
          \/ process_sell_commit(h)
          \/ update_tier_commit(h)
    \/ Tick

SpecStreak == InitStreak /\ [][NextStreak]_vars

\* -------------------------------- SpecSells: sells handled one at a time
NextSells ==
    \/ \E w \in Wallets : process_sell_read("h1", w)
    \/ process_sell_commit("h1")
    \/ Tick

SpecSells == InitStreak /\ [][NextSells]_vars

\* --------------- SpecConcurrentSells: sells of two webhook requests at once
NextConcurrentSells ==
    \/ \E h \in StreakHandlers :
          \/ \E w \in Wallets : process_sell_read(h, w)
          \/ process_sell_commit(h)
    \/ Tick

SpecConcurrentSells == InitStreak /\ [][NextConcurrentSells]_vars

\* ------ SpecSellsOfTwo: two webhook requests selling for different wallets
\* the wallets each request reports sells of; w3 has no streak
SellsOf(h) == IF h = "h1" THEN {"w1"} ELSE {"w2", "w3"}

InitSellsOfTwo ==
    /\ InitEnv /\ price = 50
    /\ InitSnapshots
    /\ InitNoDistribution
    /\ hold_streaks \in
           {f \in [Wallets -> InitStreaks] :
               /\ \A w \in {"w1", "w2"} :
                     /\ f[w] # None
                     /\ TIER_THRESHOLDS(f[w].current_tier)
                            = now - f[w].streak_start
               /\ f["w3"] = None}
    /\ InitTasks
    /\ InitCalcIdle
    /\ InitStreakIdle
    /\ InitServicesIdle

NextSellsOfTwo ==
    \/ \E h \in StreakHandlers :
          \/ \E w \in SellsOf(h) : process_sell_read(h, w)
          \/ process_sell_commit(h)
    \/ Tick

SpecSellsOfTwo == InitSellsOfTwo /\ [][NextSellsOfTwo]_vars

\* --- SpecSellAndUpgrade: the webhook's sells and the hourly tier update
\* the web process handles the sells, the Celery worker the tier update
WebhookHandler == "h1"
TierTaskHandler == "h2"

NextSellAndUpgrade ==
    \/ \E w \in Wallets : process_sell_read(WebhookHandler, w)
    \/ process_sell_commit(WebhookHandler)
    \/ \E w \in Wallets : update_tier_read(TierTaskHandler, w)
    \/ update_tier_commit(TierTaskHandler)
    \/ Tick

SpecSellAndUpgrade == InitStreak /\ [][NextSellAndUpgrade]_vars

\* ------------------------------------------------------------- properties
RECURSIVE SumAmounts(_)
SumAmounts(recipients) ==
    IF recipients = <<>> THEN 0
    ELSE Head(recipients).amount + SumAmounts(Tail(recipients))

RECURSIVE SumOver(_, _)
SumOver(rows, field) ==
    IF rows = {} THEN 0
    ELSE LET r == CHOOSE x \in rows : TRUE
         IN  r[field] + SumOver(rows \ {r}, field)

RecipientsOf(d) == {r \in distribution_recipients : r.distribution_id = d.id}

IsPlan(plan) == plan # Pending /\ plan # None

\* the plans held by the share calculation and by the running tasks
Plans ==
    {calc_plan} \cup {loc[p].plan : p \in Workers}

\* C3: for every plan returned by calculate_distribution and every persisted
\* Distribution, the recipients' amounts sum to at most the pool amount
C3_Conservation ==
    /\ \A plan \in Plans :
          IsPlan(plan) => SumAmounts(plan.recipients) <= plan.pool_amount
    /\ \A d \in distributions :
          SumOver(RecipientsOf(d), "amount_received") <= d.pool_amount

\* C3 witness: a plan with two recipients that leaves dust
C3_Witness ==
    /\ IsPlan(calc_plan)
    /\ Len(calc_plan.recipients) >= 2
    /\ SumAmounts(calc_plan.recipients) < calc_plan.pool_amount


\* hash powers as integers in units of 10^-2
HpUnits(hp) == hp.c * Pow10(hp.e + 2)

RECURSIVE SumHpUnits(_)
SumHpUnits(hps) ==
    IF hps = <<>> THEN 0
    ELSE HpUnits(Head(hps).hash_power) + SumHpUnits(Tail(hps))

\* the amount a plan gives a wallet, 0 when the wallet was dropped
AmountOf(plan, w) ==
    LET idx == {i \in 1..Len(plan.recipients) : plan.recipients[i].wallet = w}
    IN  IF idx = {} THEN 0
        ELSE plan.recipients[CHOOSE i \in idx : TRUE].amount

\* C4: every eligible wallet receives floor(poolAmount * hashPower /
\* totalHashPower), computed exactly
C4_ExactFloor ==
    IsPlan(calc_plan) =>
        \A i \in 1..Len(calc_hps) :
            AmountOf(calc_plan, calc_hps[i].wallet) =
                (calc_pool * HpUnits(calc_hps[i].hash_power))
                    \div SumHpUnits(calc_hps)

Dust(plan) == plan.pool_amount - SumAmounts(plan.recipients)

Committed == {p \in Workers : pc[p] = "committed"}

\* C1: of two allocation runs in flight at the same time exactly one creates
\* a Distribution row, the other ends with the conflict outcome
C1_ExactlyOnce == Cardinality(Committed) <= 1

\* C2: a Distribution is visible with all of its recipients or not at all,
\* and no recipient is visible without its Distribution
C2_AtomicVisibility ==
    /\ \A d \in distributions :
          Cardinality(RecipientsOf(d)) = d.recipient_count
    /\ \A r \in distribution_recipients :
          \E d \in distributions : d.id = r.distribution_id

\* C2 witness: a Distribution with two recipients is stored after another
\* run failed inside execute_distribution
C2_Witness ==
    /\ \E d \in distributions : d.recipient_count >= 2
    /\ \E p \in Workers : result[p].reason = "execution_error"

\* a run of worker p ends in this step
RunEnds(p) == pc[p] # "idle" /\ pc'[p] = "idle"

\* C6: a storage failure while persisting reaches the caller as the error
\* outcome, which differs from the outcome of a run that had nothing to
\* distribute
C6_StorageFailureIsError ==
    [][\A p \in Workers :
          (pc[p] \in ExecuteStates /\ pc'[p] = "idle"
              /\ result'[p].status # "lost")
          => result'[p].status = "error"]_vars

\* C7: a forced run that overlaps another run takes the same lock, so at
\* most one of the two creates a Distribution
C7_ForcedTakesLock ==
    \A p, q \in Workers :
        (p # q /\ loc[p].kind = "forced" /\ pc[p] = "committed")
        => pc[q] # "committed"

C9_TotalDistributed ==
    system_stats # None =>
        system_stats.total_distributed = SumOver(distributions, "pool_amount")

\* C10: the Distribution a forced run persists has trigger_type manual
C10_ForcedIsManual ==
    \A p \in Workers :
        (loc[p].kind = "forced" /\ pc[p] = "committed")
        => loc[p].new_distribution.trigger_type = "manual"

\* ------------------------------------------------ properties of the trigger
\* the trigger the statement prescribes, from exact integer arithmetic
ExpectedTrigger ==
    IF pool_balance * price >= distribution_threshold_usd * TOKEN_MULTIPLIER
    THEN "threshold"
    ELSE IF \/ distributions = {}
            \/ \A d \in distributions :
                  now - d.executed_at >= distribution_max_hours
         THEN "time"
         ELSE "none"

\* C11: the trigger decision depends on the pool value and the time since
\* the last distribution only: a run is admitted iff the value is at least
\* the threshold, or nothing was distributed yet, or at least max hours have
\* passed; the type is threshold when the threshold is met, time when only
\* the time condition is met, and none otherwise
C11_TriggerDecision ==
    [][/\ should_distribute = (IF ExpectedTrigger = "none" THEN ""
                               ELSE ExpectedTrigger)
       /\ \A p \in Workers :
             /\ (pc[p] \in {"idle", "check_and_distribute"}
                   /\ pc'[p] \in {"check_and_distribute", "calculate"}
                   /\ pc'[p] # pc[p])
                => ExpectedTrigger # "none"
             /\ (pc[p] = "idle" /\ pc'[p] = "idle"
                   /\ result'[p].status = "skipped" /\ run_seq' # run_seq
                   /\ \A q \in Workers : pc'[q] = pc[q])
                => ExpectedTrigger = "none"
             /\ (pc[p] = "calculate" /\ pc'[p] = "calculate_shares")
                => loc'[p].trigger_type = ExpectedTrigger]_vars

\* C11 witness: a run was admitted on the threshold with a pool worth exactly
\* the threshold, less than max hours after the last distribution
C11_Witness ==
    /\ pool_balance * price = distribution_threshold_usd * TOKEN_MULTIPLIER
    /\ distributions # {}
    /\ now - LastExecutedAt < distribution_max_hours
    /\ \E p \in Workers : loc[p].trigger_type = "threshold"

\* --------------------------------------------- runs that no failure cuts
\* distribution runs, scheduled and forced, with deposits, snapshots and the
\* clock, in which every query and every commit succeeds
NextRuns ==
    \/ \E p \in Workers :
          \/ StartScheduled(p)
          \/ CheckAndDistribute(p)
          \/ StartForced(p)
          \/ CalculateTrigger(p)
          \/ CalculatePlan(p)
          \/ ExecuteFlush(p)
          \/ ExecuteInsertRecipients(p)
          \/ UpdateSystemStats(p)
          \/ ExecuteCommit(p)
          \/ ReturnSuccess(p)
    \/ Tick
    \/ Deposit
    \/ TakeSnapshot

SpecRuns == Init /\ [][NextRuns]_vars

\* ------- SpecSmallPool: runs over a pool of fewer tokens than wallets paid
\* largest pool balance the behaviour starts with
MaxSmallPool == 2
\* the balance held by each wallet that holds any
SmallPoolHolding == 2

InitSmallPool ==
    /\ now = 24
    /\ pool_balance \in 1..MaxSmallPool
    /\ price \in Prices
    /\ holdings \in [Wallets -> {0, SmallPoolHolding}]
    /\ InitDb
    /\ InitTasks
    /\ InitCalcIdle
    /\ InitStreakIdle
    /\ InitServicesIdle

\* one run at a time, scheduled or forced, every statement succeeding
NextSmallPool ==
    \/ \E p \in BeatWorkers :
          \/ StartScheduled(p)
          \/ CheckAndDistribute(p)
          \/ StartForced(p)
          \/ CalculateTrigger(p)
          \/ CalculatePlan(p)
          \/ ExecuteFlush(p)
          \/ ExecuteInsertRecipients(p)
          \/ UpdateSystemStats(p)
          \/ ExecuteCommit(p)
          \/ ReturnSuccess(p)
    \/ Tick
    \/ Deposit
    \/ TakeSnapshot

SpecSmallPool == InitSmallPool /\ [][NextSmallPool]_vars

\* ------ SpecScheduledFair: the beat schedule keeps running the scheduled task
\* the positions of a task
TaskStates ==
    {"idle", "check_and_distribute", "calculate", "calculate_shares",
     "execute", "insert_recipients", "update_stats", "commit", "committed"}

\* the task of worker p advances: it is started, which counts the
\* invocation, or moves on to its next position; every step of the task
\* does one of the two and no step of the environment does
TaskAdvances(p) ==
    /\ pc[p] # "idle" \/ run_seq < MaxRuns
    /\ \E at \in TaskStates, n \in {run_seq, run_seq + 1} :
          /\ <<at, n>> # <<pc[p], run_seq>>
          /\ pc' = [pc EXCEPT ![p] = at]
          /\ run_seq' = n

\* the beat schedule sends check_distribution_triggers every five minutes
\* and the worker runs every task it is sent to its end: a task that can
\* advance does; deposits, snapshots and the clock are under no such
\* obligation
SpecScheduledFair ==
    /\ InitSmallPool
    /\ [][NextScheduled]_vars
    /\ \A p \in BeatWorkers : WF_<<pc, run_seq>>(TaskAdvances(p))

\* ------------------------------------------ SpecRewards: the buyback task
\* SOL amounts of the creator rewards received
RewardAmounts == {1, 2}

\* a CreatorReward row
CreatorReward(amount_sol, processed) ==
    [amount_sol |-> amount_sol, processed |-> processed]

\* BuybackService.get_unprocessed_rewards: the ids of the rows with
\* processed = False
get_unprocessed_rewards ==
    {r \in RewardIds :
        creator_rewards[r] # None /\ ~creator_rewards[r].processed}

\* the sum of amount_sol over a set of rewards
RECURSIVE SumAmountSol(_)
SumAmountSol(rs) ==
    IF rs = {} THEN 0
    ELSE LET r == CHOOSE x \in rs : TRUE
         IN  creator_rewards[r].amount_sol + SumAmountSol(rs \ {r})

\* BuybackService.get_total_unprocessed_sol
get_total_unprocessed_sol == SumAmountSol(get_unprocessed_rewards)

\* BuybackService.calculate_split
calculate_split(total_sol) ==
    [total_sol |-> Dec(total_sol),
     buyback_sol |-> DecMul(Dec(total_sol), [c |-> 8, e |-> -1]),
     team_sol |-> DecMul(Dec(total_sol), [c |-> 2, e |-> -1])]

\* what the buyback task leaves alone
BuybackFrame ==
    UNCHANGED <<envVars, dbVars, taskVars, calcVars, streakVars,
                priceCacheVars>>

\* BuybackService.record_creator_reward: a reward is received and stored
\* unprocessed
record_creator_reward(r, amount_sol) ==
    /\ creator_rewards[r] = None
    /\ creator_rewards' = [creator_rewards EXCEPT
                              ![r] = CreatorReward(amount_sol, FALSE)]
    /\ UNCHANGED <<buybacks, reward_runs>>
    /\ BuybackFrame

\* _process_creator_rewards, lines 36-47: the task goes on when something
\* is pending and is skipped otherwise
StartProcessRewards(p) ==
    /\ reward_runs[p].at = "idle"
    /\ get_total_unprocessed_sol # 0
    /\ reward_runs' = [reward_runs EXCEPT ![p].at = "get_rewards"]
    /\ UNCHANGED <<creator_rewards, buybacks>>
    /\ BuybackFrame

\* process_pending_rewards, lines 520-524: the unprocessed rewards are read
\* with a plain SELECT; without any the run returns None
GetUnprocessedRewards(p) ==
    /\ reward_runs[p].at = "get_rewards"
    /\ reward_runs' = [reward_runs EXCEPT ![p] =
            IF get_unprocessed_rewards = {}
            THEN NoRewardRun
            ELSE [NoRewardRun EXCEPT !.at = "swap",
                                     !.rewards = get_unprocessed_rewards]]
    /\ UNCHANGED <<creator_rewards, buybacks>>
    /\ BuybackFrame

\* process_pending_rewards, lines 526-554: 80% of the SOL of the rewards
\* read is swapped; a swap that succeeded is recorded
ExecuteSwap(p, success) ==
    /\ reward_runs[p].at = "swap"
    /\ LET rewards == reward_runs[p].rewards
           split == calculate_split(SumAmountSol(rewards))
       IN  buybacks' =
               IF success
               THEN Append(buybacks, [rewards |-> rewards,
                                      sol_amount |-> split.buyback_sol])
               ELSE buybacks
    /\ reward_runs' = [reward_runs EXCEPT ![p].at = "team",
                                          ![p].buyback_success = success]
    /\ UNCHANGED creator_rewards
    /\ BuybackFrame

\* process_pending_rewards, lines 556-569: 20% goes to the team wallet; the
\* transfer succeeds, fails or is skipped
TransferToTeamWallet(p, sent) ==
    /\ reward_runs[p].at = "team"
    /\ reward_runs' = [reward_runs EXCEPT ![p].at = "mark",
                                          ![p].team_tx = sent]
    /\ UNCHANGED <<creator_rewards, buybacks>>
    /\ BuybackFrame

\* BuybackService.mark_rewards_processed
mark_rewards_processed(reward_ids) ==
    [r \in RewardIds |->
        IF r \in reward_ids /\ creator_rewards[r] # None
        THEN [creator_rewards[r] EXCEPT !.processed = TRUE]
        ELSE creator_rewards[r]]

\* process_pending_rewards, lines 571-577: the rewards read are marked
\* processed if the swap or the transfer succeeded
MarkRewardsProcessed(p) ==
    /\ reward_runs[p].at = "mark"
    /\ creator_rewards' =
           IF reward_runs[p].buyback_success \/ reward_runs[p].team_tx
           THEN mark_rewards_processed(reward_runs[p].rewards)
           ELSE creator_rewards
    /\ reward_runs' = [reward_runs EXCEPT ![p] = NoRewardRun]
    /\ UNCHANGED buybacks
    /\ BuybackFrame

NextRewards ==
    \/ \E r \in RewardIds, amount_sol \in RewardAmounts :
           record_creator_reward(r, amount_sol)
    \/ \E p \in RewardWorkers : StartProcessRewards(p)
    \/ \E p \in RewardWorkers : GetUnprocessedRewards(p)
    \/ \E p \in RewardWorkers, success \in BOOLEAN : ExecuteSwap(p, success)
    \/ \E p \in RewardWorkers, sent \in BOOLEAN : TransferToTeamWallet(p, sent)
    \/ \E p \in RewardWorkers : MarkRewardsProcessed(p)

SpecRewards == Init /\ [][NextRewards]_vars

\* ------------------------------------------ SpecPriceCache: the price cache
CACHE_TTL_SECONDS == 60
STALE_TTL_SECONDS == 300
\* timeout of the GET of either feed
HttpTimeoutSeconds == 10

\* the clock stops here
MaxClock == 320
\* seconds that pass between two steps
TickSeconds == {10, 50, 240}

\* settings.copper_token_mint, "" when it is not configured
TokenMints == {"", "CopperMint"}

\* what the GET of a feed gives: an exception (ok = FALSE) or a body with
\* a price
FeedResponses ==
    {[ok |-> FALSE, price |-> 0]}
        \cup {[ok |-> TRUE, price |-> v] : v \in {-1, 0, 1, 2}}

\* _fetch_jupiter_price: the price, or None after an exception or a price
\* that is not positive
_fetch_jupiter_price(response) ==
    IF response.ok /\ response.price > 0
    THEN [price |-> response.price]
    ELSE None

\* _fetch_birdeye_price
_fetch_birdeye_price(response) ==
    IF response.ok /\ response.price > 0
    THEN [price |-> response.price]
    ELSE None

\* a CachedPrice; fetched_at, which the code does not keep, is the time the
\* response of the feed arrived
CachedPrice(price_usd, timestamp, source, fetched_at) ==
    [price |-> price_usd, timestamp |-> timestamp, source |-> source,
     fetched_at |-> fetched_at]

\* the call returns: what it returned, where the price came from, when it
\* was fetched, when the call read the clock and when it returned
PriceReturned(call, price_usd, source, fetched_at) ==
    [NoPriceCall EXCEPT
        !.returned = [price |-> price_usd, source |-> source,
                      fetched_at |-> fetched_at, now |-> call.now,
                      at |-> clock]]

\* what the price cache leaves alone
PriceCacheFrame ==
    UNCHANGED <<envVars, dbVars, taskVars, calcVars, streakVars, buybackVars>>

\* get_copper_price_usd, lines 51-64: without a token mint the price is 0;
\* a cached price younger than CACHE_TTL_SECONDS is returned; otherwise
\* Jupiter is asked
get_copper_price_usd(a, token_mint, use_fallback) ==
    /\ price_calls[a].at = "idle"
    /\ LET cached == price_cache
           call == [NoPriceCall EXCEPT !.now = clock, !.cached = cached,
                                       !.use_fallback = use_fallback]
       IN  price_calls' = [price_calls EXCEPT ![a] =
               IF token_mint = ""
               THEN PriceReturned(call, 0, "no_mint", 0)
               ELSE IF /\ cached # None
                       /\ call.now - cached.timestamp < CACHE_TTL_SECONDS
               THEN PriceReturned(call, cached.price, "cache",
                                  cached.fetched_at)
               ELSE [call EXCEPT !.at = "jupiter",
                                 !.fetch_started = clock]]
    /\ UNCHANGED <<clock, price_cache>>
    /\ PriceCacheFrame

\* get_copper_price_usd, lines 66-74: a positive price of Jupiter is cached
\* under the time the call began and returned; otherwise Birdeye is asked
FetchJupiter(a, response) ==
    /\ price_calls[a].at = "jupiter"
    /\ LET call == price_calls[a]
           fetched == _fetch_jupiter_price(response)
       IN  IF fetched # None /\ fetched.price > 0
           THEN /\ price_cache' = CachedPrice(fetched.price, call.now,
                                              "jupiter", clock)
                /\ price_calls' = [price_calls EXCEPT ![a] =
                       PriceReturned(call, fetched.price, "jupiter", clock)]
           ELSE /\ UNCHANGED price_cache
                /\ price_calls' = [price_calls EXCEPT ![a] =
                       [call EXCEPT !.at = "birdeye",
                                    !.fetch_started = clock]]
    /\ UNCHANGED clock
    /\ PriceCacheFrame

\* variant: the price the call found in the cache is returned at any age
FetchBirdeye_any_age(a, response) ==
    /\ price_calls[a].at = "birdeye"
    /\ LET call == price_calls[a]
           cached == call.cached
           fetched == _fetch_birdeye_price(response)
       IN  IF fetched # None /\ fetched.price > 0
           THEN /\ price_cache' = CachedPrice(fetched.price, call.now,
                                              "birdeye", clock)
                /\ price_calls' = [price_calls EXCEPT ![a] =
                       PriceReturned(call, fetched.price, "birdeye", clock)]
           ELSE /\ UNCHANGED price_cache
                /\ price_calls' = [price_calls EXCEPT ![a] =
                       IF call.use_fallback /\ cached # None
                       THEN PriceReturned(call, cached.price, "stale",
                                          cached.fetched_at)
                       ELSE PriceReturned(call, 0, "none", 0)]
    /\ UNCHANGED clock
    /\ PriceCacheFrame

\* get_copper_price_usd, lines 76-96: a positive price of Birdeye is cached
\* and returned; otherwise the price the call found in the cache is
\* returned if it is younger than STALE_TTL_SECONDS, and 0 if not
FetchBirdeye(a, response) ==
    /\ price_calls[a].at = "birdeye"
    /\ LET call == price_calls[a]
           cached == call.cached
           fetched == _fetch_birdeye_price(response)
       IN  IF fetched # None /\ fetched.price > 0
           THEN /\ price_cache' = CachedPrice(fetched.price, call.now,
                                              "birdeye", clock)
                /\ price_calls' = [price_calls EXCEPT ![a] =
                       PriceReturned(call, fetched.price, "birdeye", clock)]
           ELSE /\ UNCHANGED price_cache
                /\ price_calls' = [price_calls EXCEPT ![a] =
                       IF /\ call.use_fallback
                          /\ cached # None
                          /\ call.now - cached.timestamp < STALE_TTL_SECONDS
                       THEN PriceReturned(call, cached.price, "stale",
                                          cached.fetched_at)
                       ELSE PriceReturned(call, 0, "none", 0)]
    /\ UNCHANGED clock
    /\ PriceCacheFrame

\* time passes; the GET of a feed ends within its timeout
ClockTick(seconds) ==
    /\ clock + seconds <= MaxClock
    /\ \A a \in PriceCallers :
           price_calls[a].at \in {"jupiter", "birdeye"}
               => clock + seconds - price_calls[a].fetch_started
                      <= HttpTimeoutSeconds
    /\ clock' = clock + seconds
    /\ UNCHANGED <<price_cache, price_calls>>
    /\ PriceCacheFrame

NextPriceCache ==
    \/ \E a \in PriceCallers, token_mint \in TokenMints,
          use_fallback \in BOOLEAN :
           get_copper_price_usd(a, token_mint, use_fallback)
    \/ \E a \in PriceCallers, response \in FeedResponses :
           FetchJupiter(a, response)
    \/ \E a \in PriceCallers, response \in FeedResponses :
           FetchBirdeye(a, response)
    \/ \E seconds \in TickSeconds : ClockTick(seconds)

SpecPriceCache == Init /\ [][NextPriceCache]_vars

\* -------------------------------------------- properties of the allocation
\* what calculate_all_hash_powers returns for the window of a run made now
EligibleHashPowers ==
    calculate_all_hash_powers(balances, hold_streaks, WindowStart, now,
                              min_balance_tokens)

\* worker p is about to find that there is nothing to distribute
NothingToDistribute(p) ==
    \/ pc[p] = "calculate" /\ pool_balance <= 0
    \/ /\ pc[p] = "calculate_shares"
       /\ \/ EligibleHashPowers = <<>>
          \/ DecIsZero(SumHashPower(EligibleHashPowers))

\* C12: with an empty pool, an empty eligible set or a total hash power of 0
\* the allocator answers "nothing to distribute": the run ends without an
\* exception and without writing a Distribution, a recipient or the totals
C12_NothingToDistribute ==
    [][\A p \in Workers :
          (pc'[p] # pc[p] /\ NothingToDistribute(p)
              /\ result'[p].status \notin {"error", "lost"})
          => /\ pc'[p] = "idle"
             /\ result'[p] = NoPlanResult(loc[p].kind)
             /\ UNCHANGED dbVars]_vars

\* C12 witness: a forced run ended for want of eligible wallets, a second
\* run with a positive pool amount faces the same empty window, and nothing
\* was written
C12_Witness ==
    \E p, q \in Workers :
        /\ p # q
        /\ pc[p] = "calculate_shares"
        /\ loc[p].pool_amount > 0
        /\ EligibleHashPowers = <<>>
        /\ result[q] = Failed("no_eligible_recipients")
        /\ distributions = {}
        /\ distribution_recipients = {}

\* C13: a wallet that is excluded when an allocation runs is not among the
\* recipients of the plan, whatever samples it has in the window
C13_ExcludedNotRecipient ==
    [][\A p \in Workers :
          (pc[p] = "calculate_shares" /\ pc'[p] = "execute")
          => \A i \in 1..Len(loc'[p].plan.recipients) :
                loc'[p].plan.recipients[i].wallet \notin excluded_wallets]_vars

\* the hash powers over the half-open window [WindowStart, now): a sample
\* stamped now is left to the next window
HalfOpenHashPowers ==
    calculate_all_hash_powers({r \in balances : r.timestamp < now},
                              hold_streaks, WindowStart, now,
                              min_balance_tokens)

\* C14: a run allocates over the window from the last executed_at (or 24
\* hours back) up to, and not including, now: the plan is the one computed
\* without the samples stamped exactly at the window's end
C14_HalfOpenWindow ==
    [][\A p \in Workers :
          (pc[p] = "calculate_shares" /\ pc'[p] \in {"execute", "idle"}
              /\ result'[p].status \notin {"error", "lost"})
          => LET expected == CalculateShares(loc[p].pool_amount,
                                             HalfOpenHashPowers)
             IN  IF expected = None THEN pc'[p] = "idle"
                 ELSE /\ pc'[p] = "execute"
                      /\ loc'[p].plan.recipients = expected.recipients]_vars

\* ------------------------------------------------ properties of the streaks
\* handler h returns from a call of kind op in this step
CallEnds(h, op) == streak_calls[h].op = op /\ streak_calls'[h] = NoCall

\* C15: process_sell on a wallet at tier t stores tier max(1, t - 1), a
\* streak start that makes the streak exactly as long as the new tier's
\* threshold at the time of the sell, and the time of the sell as
\* last_sell_at; at tier 1 the tier stays 1
C15_ProcessSell ==
    [][\A h \in StreakHandlers :
          LET c == streak_calls[h]
              w == c.wallet
          IN  (CallEnds(h, "sell") /\ hold_streaks[w] = c.streak)
              => LET t == hold_streaks[w].current_tier
                     after == hold_streaks'[w]
                 IN  /\ after.current_tier = (IF t > 1 THEN t - 1 ELSE 1)
                     /\ c.now - after.streak_start =
                            TIER_THRESHOLDS(after.current_tier)
                     /\ after.last_sell_at = c.now]_vars

\* C15 witness: a wallet at tier 4 sold and is at tier 3 with a streak of
\* exactly 12 hours
C15_Witness ==
    \E w \in Wallets :
        /\ hold_streaks[w] # None
        /\ hold_streaks[w] = HoldStreak(3, now - 12, now)
        /\ \E i \in 1..Len(streak_log) :
              streak_log[i] = LogLine("sell", w, 4, 3)

\* C16: starting a streak creates a row at tier 1 that starts now for a
\* wallet without one and leaves the row of a wallet that has one as it is;
\* rows change in sells and upgrades only
C16_StartStreakIdempotent ==
    [][/\ \A h \in StreakHandlers :
             LET w == streak_calls[h].wallet
             IN  CallEnds(h, "create")
                 => IF hold_streaks[w] = None
                    THEN hold_streaks'[w] = HoldStreak(1, now, NoTime)
                    ELSE hold_streaks'[w] = hold_streaks[w]
       /\ \A w \in Wallets :
             (hold_streaks[w] # None /\ hold_streaks'[w] # hold_streaks[w])
             => \E h \in StreakHandlers :
                   /\ streak_calls[h].wallet = w
                   /\ CallEnds(h, "sell") \/ CallEnds(h, "upgrade")]_vars

\* C16 witness: a call is about to insert a streak for a wallet that got its
\* streak from another call an hour count ago
C16_Witness ==
    \E h \in StreakHandlers :
        /\ streak_calls[h].op = "create"
        /\ hold_streaks[streak_calls[h].wallet] # None
        /\ hold_streaks[streak_calls[h].wallet].streak_start < now
        /\ \E i \in 1..Len(streak_log) :
              streak_log[i] = LogLine("start", streak_calls[h].wallet, 0, 1)

\* the highest tier whose threshold is at most hours
HighestTierFor(hours) ==
    CHOOSE t \in 1..6 :
        /\ TIER_THRESHOLDS(t) <= hours
        /\ \A u \in 1..6 : TIER_THRESHOLDS(u) <= hours => u <= t

\* C17: update_tier_if_needed stores the highest tier whose threshold is at
\* most now - streak_start, and only when that tier is above the current
\* tier of the row it read; a call that finds no higher tier changes
\* nothing; no call lowers the tier it read or changes streak_start or
\* last_sell_at
C17_UpgradeOnly ==
    [][\A h \in StreakHandlers :
          LET c == streak_calls[h]
              w == c.wallet
              v == streak_calls'[h].wallet
          IN  /\ CallEnds(h, "upgrade")
                 => /\ hold_streaks'[w].streak_start =
                           hold_streaks[w].streak_start
                    /\ hold_streaks'[w].last_sell_at =
                           hold_streaks[w].last_sell_at
                    /\ hold_streaks'[w].current_tier =
                           HighestTierFor(c.now - c.streak.streak_start)
                    /\ hold_streaks'[w].current_tier > c.streak.current_tier
              /\ (c = NoCall /\ streak_calls'[h].op = "upgrade")
                 => /\ HighestTierFor(now - hold_streaks[v].streak_start)
                           > hold_streaks[v].current_tier
                    /\ hold_streaks' = hold_streaks
              /\ (run_seq' # run_seq /\ streak_calls' = streak_calls)
                 => hold_streaks' = hold_streaks]_vars

\* C17 witness: an upgrade took a wallet two or more tiers up in one call
C17_Witness ==
    \E i \in 1..Len(streak_log) :
        /\ streak_log[i].op = "upgrade"
        /\ streak_log[i].new_tier >= streak_log[i].old_tier + 2
        /\ hold_streaks[streak_log[i].wallet].current_tier =
               streak_log[i].new_tier

\* C18: the stored tier of a wallet goes down only in a step of
\* process_sell, and then by exactly one tier
C18_TierDropsBySellByOne ==
    [][\A w \in Wallets :
          (/\ hold_streaks[w] # None
           /\ hold_streaks'[w].current_tier < hold_streaks[w].current_tier)
          => /\ \E h \in StreakHandlers :
                   streak_calls[h].wallet = w /\ CallEnds(h, "sell")
             /\ hold_streaks'[w].current_tier =
                    hold_streaks[w].current_tier - 1]_vars

\* C19: every HoldStreak has a tier in 1..6
C19_TierInRange ==
    \A w \in Wallets :
        hold_streaks[w] # None => hold_streaks[w].current_tier \in 1..6

\* C19 witness: a wallet was upgraded to tier 6 and a wallet at tier 1 sold
C19_Witness ==
    /\ \E i \in 1..Len(streak_log) :
          streak_log[i].op = "upgrade" /\ streak_log[i].new_tier = 6
    /\ \E i \in 1..Len(streak_log) :
          /\ streak_log[i].op = "sell" /\ streak_log[i].old_tier = 1
          /\ hold_streaks[streak_log[i].wallet].current_tier = 1

\* the sells logged for wallet w, oldest first
SellLines(w) ==
    SelectSeq(streak_log, LAMBDA l : l.wallet = w /\ l.op = "sell")

\* C20: k sells of a wallet at tier t, handled one after the other without
\* an upgrade in between, leave it at tier max(1, t - k), each sell going
\* one tier down from where the one before left it
C20_SellsCompound ==
    \A w \in Wallets :
        LET lines == SellLines(w)
            k == Len(lines)
        IN  k > 0 =>
              LET t == lines[1].old_tier
              IN  /\ \A i \in 1..k :
                        /\ lines[i].old_tier = Max(1, t - (i - 1))
                        /\ lines[i].new_tier = Max(1, t - i)
                  /\ hold_streaks[w].current_tier = Max(1, t - k)

\* C20 witness: three sells took a wallet from tier 5 to tier 2
C20_Witness ==
    \E w \in Wallets :
        /\ Len(SellLines(w)) = 3
        /\ SellLines(w)[1].old_tier = 5
        /\ hold_streaks[w].current_tier = 2

\* C21: concurrent sells of one wallet are serialised: once k sells of a
\* wallet that was at tier t have returned, the stored tier is the one that
\* k sells in a row leave, max(1, t - k), so no demotion is lost
C21_NoDemotionLost ==
    \A w \in Wallets :
        LET lines == SellLines(w)
            k == Len(lines)
        IN  k > 0 =>
              hold_streaks[w].current_tier = Max(1, lines[1].old_tier - k)

\* C22: process_sell on a wallet without a HoldStreak answers "unknown
\* wallet" and returns at once: no streak is created, no stored row changes
\* and there is nothing left to commit; a sell that goes on to commit has
\* read a row
C22_SellOfUnknownWallet ==
    [][\A h \in StreakHandlers :
          /\ \A w \in Wallets :
                (/\ streak_calls[h] = NoCall
                 /\ hold_streaks[w] = None
                 /\ Len(streak_log') = Len(streak_log) + 1
                 /\ streak_log'[Len(streak_log')].wallet = w
                 /\ streak_log'[Len(streak_log')].op \in {"unknown", "sell"})
                => /\ streak_log'[Len(streak_log')].op = "unknown"
                   /\ streak_calls' = streak_calls
                   /\ hold_streaks' = hold_streaks
                   /\ UNCHANGED dbVars
          /\ streak_calls'[h].op = "sell"
                => /\ streak_calls'[h].streak # None
                   /\ hold_streaks[streak_calls'[h].wallet] # None]_vars

\* C22 witness: a sell found no streak for a wallet while another call was
\* about to insert one, and the wallet has none yet
C22_Witness ==
    \E i \in 1..Len(streak_log) :
        /\ streak_log[i].op = "unknown"
        /\ hold_streaks[streak_log[i].wallet] = None
        /\ \E h \in StreakHandlers :
              /\ streak_calls[h].op = "create"
              /\ streak_calls[h].wallet = streak_log[i].wallet

\* ------------------------------------------------- properties of the TWAB
\* the stored series and the window of Scenario 1
Scenario1 ==
    /\ balances = {[wallet |-> "w1", timestamp |-> 0, balance |-> 100],
                   [wallet |-> "w1", timestamp |-> 10, balance |-> 200]}
    /\ twab_start = 0
    /\ twab_end = 20

\* C23 as stated: balance 100 at hour 0 and 200 at hour 10 give a TWAB of
\* 150 over the window from hour 0 to hour 20
C23_Scenario150 ==
    (Scenario1 /\ twab_result # Pending) => twab_result.twab = 150

\* C23 as amended: balance 100 at hour 0 and 200 at hour 10 give a TWAB of
\* (100 * 5 + 200 * 15) / 20 = 175 over the window from hour 0 to hour 20,
\* the first sample counting up to the midpoint at hour 5
C23_Scenario175 ==
    (Scenario1 /\ twab_result # Pending)
    => twab_result.twab = (100 * 5 + 200 * 15) \div 20

\* C23 witness: the TWAB of Scenario 1 has been computed
C23_Witness == Scenario1 /\ twab_result # Pending /\ twab_result.twab > 0

\* the samples calculate_twab reads for the call at hand
TwabSeries == SamplesFrom(balances, "w1", twab_start, twab_end)

\* the durations of the segments 1..i of the series, and the same weighted
\* by the balances, in half hours
RECURSIVE SumDurations(_, _)
SumDurations(bs, i) ==
    IF i = 0 THEN 0
    ELSE SumDurations(bs, i - 1) + SegDuration(bs, i, twab_start, twab_end)

RECURSIVE SumContributions(_, _)
SumContributions(bs, i) ==
    IF i = 0 THEN 0
    ELSE SumContributions(bs, i - 1)
         + bs[i].balance * SegDuration(bs, i, twab_start, twab_end)

C25_SingleSampleAnyWindow ==
    (Len(TwabSeries) = 1 /\ twab_result # Pending)
    => twab_result.twab = TwabSeries[1].balance

\* C25 as amended: the TWAB of a series of one sample is that sample's
\* balance, for any window that ends after it starts
C25_SingleSample ==
    (Len(TwabSeries) = 1 /\ twab_result # Pending /\ twab_end > twab_start)
    => twab_result.twab = TwabSeries[1].balance

\* C25 witness: one sample, taken after the window started and before it
\* ended, is the TWAB of the whole window
C25_Witness ==
    /\ twab_result # Pending
    /\ Len(TwabSeries) = 1
    /\ twab_start < TwabSeries[1].timestamp
    /\ TwabSeries[1].timestamp < twab_end
    /\ TwabSeries[1].balance = MaxTwabBalance
    /\ twab_result.twab = MaxTwabBalance

\* C26: the TWAB of an empty series is 0 for any window, and the TWAB of any
\* series is 0 for a window that starts and ends at the same time; both calls
\* return
C26_EmptyOrZeroLength ==
    /\ (twab_result # Pending /\ (TwabSeries = <<>> \/ twab_start = twab_end))
       => twab_result.twab = 0
    /\ (twab_result = Pending /\ (TwabSeries = <<>> \/ twab_start = twab_end))
       => ENABLED CalcTwab

\* C26 witness: a sample with a positive balance taken at the very time a
\* zero-length window starts and ends gives 0
C26_Witness ==
    /\ twab_result # Pending
    /\ twab_start = twab_end
    /\ Len(TwabSeries) = 1
    /\ TwabSeries[1].balance > 0
    /\ twab_result.twab = 0

\* the smallest and the largest balance of a non-empty series
MinBalance(bs) ==
    CHOOSE b \in {bs[i].balance : i \in 1..Len(bs)} :
        \A i \in 1..Len(bs) : b <= bs[i].balance
MaxBalance(bs) ==
    CHOOSE b \in {bs[i].balance : i \in 1..Len(bs)} :
        \A i \in 1..Len(bs) : b >= bs[i].balance

EligibleWallets ==
    {w \in Wallets :
        /\ SamplesFrom(balances, w, HpWindowStart, now) # <<>>
        /\ calculate_twab(balances, w, HpWindowStart, now)
               >= hp_call.min_balance}

\* TWAB times the multiplier of the stored tier, tier 1 without a streak
HashPowerOf(w) ==
    DecMul(Dec(calculate_twab(balances, w, HpWindowStart, now)),
           TierMultiplier(IF hold_streaks[w] = None THEN 1
                          ELSE hold_streaks[w].current_tier))

\* the place of a wallet in ascending order of wallet ids
WalletIndex(w) == CHOOSE i \in 1..Len(WalletOrder) : WalletOrder[i] = w

\* wallet v comes before wallet w: higher hash power, or the same hash power
\* and the smaller wallet id
ComesBefore(v, w) ==
    \/ DecLess(HashPowerOf(w), HashPowerOf(v))
    \/ /\ ~DecLess(HashPowerOf(v), HashPowerOf(w))
       /\ WalletIndex(v) < WalletIndex(w)

\* C28: the list calculate_all_hash_powers returns is determined by the
\* stored samples and tiers: it holds the eligible wallets by hash power
\* descending, wallets of equal hash power by ascending wallet id, and a
\* limit keeps the wallets that come first in that order
C28_DeterministicOrder ==
    hp_result # Pending =>
        LET r == hp_result.hash_powers
            listed == {r[i].wallet : i \in 1..Len(r)}
            n == Cardinality(EligibleWallets)
        IN  /\ \A i \in 1..Len(r) :
                  /\ r[i].wallet \in EligibleWallets
                  /\ r[i].hash_power = HashPowerOf(r[i].wallet)
            /\ \A i, j \in 1..Len(r) :
                  i < j => ComesBefore(r[i].wallet, r[j].wallet)
            /\ Len(r) = (IF hp_call.limit = 0 \/ hp_call.limit >= n
                         THEN n ELSE hp_call.limit)
            /\ \A w \in EligibleWallets \ listed :
                  \A v \in listed : ComesBefore(v, w)

\* C28 witness: the limit cut the list between two wallets of equal hash
\* power and different tiers
C28_Witness ==
    /\ hp_result # Pending
    /\ hp_call.limit > 0
    /\ Len(hp_result.hash_powers) = hp_call.limit
    /\ \E w \in EligibleWallets :
          LET last == hp_result.hash_powers[hp_call.limit]
          IN  /\ w \notin {hp_result.hash_powers[i].wallet :
                             i \in 1..hp_call.limit}
              /\ ~DecLess(HashPowerOf(w), last.hash_power)
              /\ hold_streaks[w] # hold_streaks[last.wallet]

WalletsPaidBy(d) == {r.wallet : r \in RecipientsOf(d)}

\* C30: every stored Distribution has as many DistributionRecipient rows as
\* its recipient_count says, and no two of them are for the same wallet
C30_RecipientCount ==
    \A d \in distributions :
        /\ d.recipient_count = Cardinality(RecipientsOf(d))
        /\ Cardinality(WalletsPaidBy(d)) = Cardinality(RecipientsOf(d))

\* C30 witness: two distributions are stored, each with two recipients
C30_Witness ==
    /\ Cardinality(distributions) = 2
    /\ \A d \in distributions : Cardinality(WalletsPaidBy(d)) = 2

\* ------------------------------------------------------------ price of 0
\* the wallets that have at least one Balance row in the window of a plan
\* made now
WalletsWithSamples ==
    {w \in Wallets : SamplesFrom(balances, w, WindowStart, now) # <<>>}

\* C31: when the price is 0 (feed unavailable or reporting 0) the run that
\* is about to plan uses a floor of 0, its hash-power list holds every
\* wallet with samples in the window, the plan's total is the sum over all
\* of them, and a plan is made whenever one of them has a positive TWAB:
\* the price of 0 is no reason to fail
C31_PriceZeroNoFloor ==
    \A p \in Workers :
        (pc[p] = "calculate_shares" /\ price = 0) =>
            LET hps == calculate_all_hash_powers(balances, hold_streaks,
                           WindowStart, now, min_balance_tokens)
                plan == calculate_distribution(p)
            IN  /\ min_balance_tokens = 0
                /\ {hps[i].wallet : i \in 1..Len(hps)} = WalletsWithSamples
                /\ (plan = None) <=> (\A i \in 1..Len(hps) : hps[i].twab = 0)
                /\ plan # None =>
                       /\ plan.total_hashpower = SumHashPower(hps)
                       /\ \A i \in 1..Len(plan.recipients) :
                              plan.recipients[i].wallet \in WalletsWithSamples

\* a Distribution paying both wallets with samples was committed while the
\* price was 0
C31_Witness ==
    /\ price = 0
    /\ \E d \in distributions :
           /\ d.recipient_count = 2
           /\ WalletsPaidBy(d) = {"w1", "w2"}

\* ------------------------------------------------- sells of other wallets
\* the row process_sell leaves for a wallet stored as streak when it runs
\* alone at time sold_at
SoldAt(streak, sold_at) ==
    LET tier == Max(1, streak.current_tier - 1)
    IN  HoldStreak(tier, sold_at - TIER_THRESHOLDS(tier), sold_at)

\* C32: a step of process_sell(w) leaves the HoldStreak of every other
\* wallet as it is, and with sells of different wallets in progress at the
\* same time every sell that returns leaves for its wallet the row it
\* leaves when it runs alone on the row stored then: the state after any
\* interleaving is the state after the calls one after another
C32_SellsIndependent ==
    [][\A h \in StreakHandlers :
          LET c == streak_calls[h]
          IN  /\ CallEnds(h, "sell") =>
                    /\ \A v \in Wallets \ {c.wallet} :
                           hold_streaks'[v] = hold_streaks[v]
                    /\ hold_streaks'[c.wallet] =
                           SoldAt(hold_streaks[c.wallet], c.now)
              /\ ~CallEnds(h, "sell") /\ streak_calls'[h] # c =>
                    hold_streaks' = hold_streaks]_vars

\* two sells were in progress at once, for w1 read at tier 3 and for w2
\* read at tier 2 at a later hour, and both have returned: w1 is at tier 2,
\* w2 at tier 1
C32_Witness ==
    /\ \A h \in StreakHandlers : streak_calls[h] = NoCall
    /\ Len(streak_log) = 2
    /\ streak_log[1] = LogLine("sell", "w2", 2, 1)
    /\ streak_log[2] = LogLine("sell", "w1", 3, 2)
    /\ hold_streaks["w1"].current_tier = 2
    /\ hold_streaks["w2"].current_tier = 1
    /\ hold_streaks["w1"].last_sell_at < hold_streaks["w2"].last_sell_at

\* -------------------------------------------------- allocation of the pool
\* tokens ever deposited into the pool: the pool wallet only receives, no
\* step of the engine takes tokens out of it
TotalDeposited == pool_balance

\* C33: pool tokens are allocated at most once: the pool amounts of the
\* committed Distributions add up to no more than what was ever deposited
\* into the pool, so once a balance has been distributed no later run
\* distributes the same balance again
C33_PoolAllocatedOnce ==
    SumOver(distributions, "pool_amount") <= TotalDeposited

\* ------------------------------------------- trigger of a scheduled run
\* C34: the Distribution a scheduled run commits carries the trigger that
\* check_and_distribute found met when it admitted the run, whatever
\* happened to the pool or to the last distribution before the plan was
\* calculated
C34_TriggerAsAdmitted ==
    \A p \in Workers :
        (pc[p] = "committed" /\ loc[p].kind = "scheduled")
        => /\ loc[p].trigger \in {"threshold", "time"}
           /\ loc[p].new_distribution.trigger_type = loc[p].trigger

\* --------------------------------------------------- plans that pay nobody
\* C35: a run whose plan pays no wallet, every floored amount being 0, ends
\* as a run with nothing to distribute and writes nothing, and no committed
\* Distribution has a recipient count of 0
C35_NoEmptyDistribution ==
    [][/\ \A d \in distributions' : d.recipient_count > 0
       /\ \A p \in Workers :
             (/\ RunEnds(p)
              /\ loc[p].plan # None
              /\ loc[p].plan.recipient_count = 0
              /\ loc[p].plan.trigger_type # "manual")
             => /\ result'[p] = NoPlanResult(loc[p].kind)
                /\ UNCHANGED dbVars]_vars

\* ------------------------------------------------- tier and streak length
\* C36: the streak of every wallet has lasted at least the hours its tier
\* requires: TIER_THRESHOLDS[current_tier] <= now - streak_start, so that
\* an upgrade check right after a sell finds nothing to upgrade
C36_ThresholdElapsed ==
    \A w \in Wallets :
        hold_streaks[w] # None =>
            /\ TIER_THRESHOLDS(hold_streaks[w].current_tier)
                   <= now - hold_streaks[w].streak_start
            /\ HighestTierFor(now - hold_streaks[w].streak_start)
                   >= hold_streaks[w].current_tier

\* the row update_tier_if_needed leaves for a wallet stored as streak when
\* it runs alone at time checked_at
UpgradedAt(streak, checked_at) ==
    LET calculated_tier == HighestTierFor(checked_at - streak.streak_start)
    IN  IF calculated_tier > streak.current_tier
        THEN [streak EXCEPT !.current_tier = calculated_tier]
        ELSE streak

\* C37: when an upgrade returns for a wallet whose only sell was committed
\* after the upgrade had read the row, the stored row is the one that the
\* sell followed by the upgrade, or the upgrade followed by the sell, leaves
C37_SellOrUpgradeFirst ==
    [][\A h \in StreakHandlers :
          LET c == streak_calls[h]
              w == c.wallet
              stored == hold_streaks[w]
          IN  (/\ CallEnds(h, "upgrade")
               /\ Len(SellLines(w)) = 1
               /\ stored # c.streak
               /\ stored = SoldAt(c.streak, stored.last_sell_at))
              => hold_streaks'[w] \in
                    {UpgradedAt(stored, c.now),
                     SoldAt(UpgradedAt(c.streak, c.now),
                            stored.last_sell_at)}]_vars

\* ---------------------------------------------------------------- liveness
\* distribution_max_hours have passed since the last Distribution, or there
\* is none
MaxHoursElapsed ==
    \/ distributions = {}
    \/ now - LastExecutedAt >= distribution_max_hours

\* a scheduled run can still be started and none is in progress
SchedulerReady ==
    /\ run_seq < MaxRuns
    /\ \A p \in BeatWorkers : pc[p] = "idle"

\* the pool is not empty, some wallet has a positive hash power in the
\* window of a run made now, and the time trigger is due
DistributionDue ==
    /\ pool_balance > 0
    /\ \E i \in 1..Len(EligibleHashPowers) :
           ~DecIsZero(EligibleHashPowers[i].hash_power)
    /\ MaxHoursElapsed

\* the plan calculate_distribution makes of the current pool balance pays
\* at least one wallet
PlanPaysSomeone ==
    LET shares == CalculateShares(pool_balance, EligibleHashPowers)
    IN  shares # None /\ shares.recipient_count > 0

\* a run of the scheduled task has just committed a Distribution
DistributionCreated == \E p \in BeatWorkers : pc[p] = "committed"

SwapsOf(r) == {i \in DOMAIN buybacks : r \in buybacks[i].rewards}

\* C39: a reward that has been marked processed stays processed and is not
\* returned by get_unprocessed_rewards again, and the SOL of every reward is
\* spent by at most one buyback swap
C39_RewardsProcessedOnce ==
    [][/\ \A r \in RewardIds :
              (creator_rewards[r] # None /\ creator_rewards[r].processed)
                  => /\ creator_rewards'[r] # None
                     /\ creator_rewards'[r].processed
                     /\ r \notin get_unprocessed_rewards'
       /\ \A r \in RewardIds : Cardinality(SwapsOf(r)') <= 1]_vars

\* the cache holds a price younger than CACHE_TTL_SECONDS
CacheIsFresh ==
    /\ price_cache # None
    /\ clock - price_cache.timestamp < CACHE_TTL_SECONDS

\* caller a calls get_copper_price_usd with a token mint: a fresh cached
\* price is returned at once, without a feed, and without one Jupiter is
\* asked first
FreshCacheFirst(a) ==
    LET call == price_calls'[a]
    IN  (/\ price_calls[a].at = "idle"
         /\ call # price_calls[a]
         /\ ~(call.at = "idle" /\ call.returned.source = "no_mint"))
            => IF CacheIsFresh
               THEN /\ call.at = "idle"
                    /\ call.returned.source = "cache"
                    /\ call.returned.price = price_cache.price
               ELSE call.at = "jupiter"

\* the answer of Jupiter arrives: its positive price is returned, and
\* Birdeye is asked otherwise
JupiterBeforeBirdeye(a) ==
    LET call == price_calls'[a]
    IN  (price_calls[a].at = "jupiter" /\ call # price_calls[a])
            => \/ call.at = "birdeye"
               \/ /\ call.at = "idle"
                  /\ call.returned.source = "jupiter"
                  /\ call.returned.price > 0

\* the answer of Birdeye arrives: its positive price is returned; otherwise
\* the price the call found in the cache if it asked for the fallback and
\* the price was younger than STALE_TTL_SECONDS then, and 0 if not
BirdeyeBeforeStale(a) ==
    LET call == price_calls'[a]
        was == price_calls[a]
    IN  (was.at = "birdeye" /\ call # was)
            => /\ call.at = "idle"
               /\ \/ /\ call.returned.source = "birdeye"
                     /\ call.returned.price > 0
                  \/ /\ UNCHANGED price_cache
                     /\ IF /\ was.use_fallback
                           /\ was.cached # None
                           /\ was.now - was.cached.timestamp
                                  < STALE_TTL_SECONDS
                        THEN /\ call.returned.source = "stale"
                             /\ call.returned.price = was.cached.price
                        ELSE /\ call.returned.source = "none"
                             /\ call.returned.price = 0

\* the cache is only overwritten with a positive price that a feed has just
\* given and the call returns
OnlyFetchedPriceCached ==
    price_cache' # price_cache
        => /\ price_cache' # None
           /\ price_cache'.price > 0
           /\ price_cache'.fetched_at = clock
           /\ \E a \in PriceCallers :
                  /\ price_calls[a].at \in {"jupiter", "birdeye"}
                  /\ price_calls'[a].returned.source = price_cache'.source
                  /\ price_calls'[a].returned.price = price_cache'.price

\* the order of get_copper_price_usd
PriceOrderKept ==
    /\ \A a \in PriceCallers :
           FreshCacheFirst(a) /\ JupiterBeforeBirdeye(a)
               /\ BirdeyeBeforeStale(a)
    /\ OnlyFetchedPriceCached

\* C40 as stated: the order fresh cache, Jupiter, Birdeye, stale cache, 0
\* is kept, only a positive fetched price is cached, and a price that is
\* returned and is not 0 was fetched less than STALE_TTL_SECONDS before the
\* call returned it
C40_ReturnedPriceFetchedWithinStaleTtl ==
    [][/\ PriceOrderKept
       /\ \A a \in PriceCallers :
              LET returned == price_calls'[a].returned
              IN  (returned # None /\ returned.price # 0)
                      => returned.at - returned.fetched_at
                             < STALE_TTL_SECONDS]_vars

\* C40: the order is kept, only a positive fetched price is cached, and a
\* price that is returned and is not 0 was fetched less than
\* STALE_TTL_SECONDS before the call read the clock
C40_ReturnedPriceFetchedBeforeCall ==
    [][/\ PriceOrderKept
       /\ \A a \in PriceCallers :
              LET returned == price_calls'[a].returned
              IN  (returned # None /\ returned.price # 0)
                      => returned.now - returned.fetched_at
                             < STALE_TTL_SECONDS]_vars

\* both feeds failed and the call returned a cached price that was neither
\* fresh nor older than STALE_TTL_SECONDS when the call began
C40_Witness ==
    \E a \in PriceCallers :
        LET returned == price_calls[a].returned
        IN  /\ returned # None
            /\ returned.source = "stale"
            /\ returned.price > 0
            /\ returned.now - returned.fetched_at >= CACHE_TTL_SECONDS
            /\ returned.at > returned.now

=============================================================================
